---- MODULE Spec2Model ----
(***************************************************************************)
(* Model of app/modal_scraper.py: the per-task provider fallback state     *)
(* machine (scrape_url), the input normalisation and override merge that   *)
(* surround it in process_batch, and the provider / extraction adapters as *)
(* far as their results drive the state machine.                           *)
(*                                                                         *)
(* A Python dict is a function whose domain is its set of keys; a field    *)
(* holding None is a key that is absent (ScrapeResult.to_dict drops None   *)
(* fields, extract_initial_data drops None values).  Messages are short,   *)
(* so the [:200] truncations of the source are the identity on them.       *)
(*                                                                         *)
(* A coroutine takes one step per stretch of code between two awaits that  *)
(* return to the event loop: a scrape_url run stops at the adapter call,   *)
(* at the screenshot upload and at the extraction.                         *)
(***************************************************************************)
EXTENDS Integers, Sequences, FiniteSets, TLC

VARIABLES
    env_retries,         \* FIRECRAWL_RETRIES / BRIGHTDATA_RETRIES / PLAYWRIGHT_RETRIES
    primary,             \* get_primary_scraper()
    ml_force,            \* MERCADOLIVRE_FORCE_BRIGHTDATA is one of true/1/yes
    item,                \* the raw input item handed to process_batch
    task,                \* its entry in processed_items
    pc,                  \* position of the task's unit of work
    result,              \* the ScrapeResult being accumulated
    attempt_order,       \* resolved provider order (method keys)
    idx,                 \* position in attempt_order (enumerate index)
    retry,               \* loop variable of `for retry in range(max_retries)`
    attempt_result,      \* the AttemptResult of the pass in progress
    screenshot_url,      \* screenshot_url of the pass in progress
    last_screenshot_url,
    last_error,
    output,              \* the dict handed back to process_batch's caller
    calls,               \* trace of the external calls made for the task
    \* process_batch
    env_max_concurrency, \* MAX_CONCURRENCY
    urls_data,           \* the list of raw input items
    services,            \* what the providers, the upload and the extraction answer
    b_pc,                \* position of process_batch
    processed_items,     \* the normalised tasks
    semaphore,           \* value of asyncio.Semaphore(config["max_concurrency"])
    units,               \* the scrape_with_semaphore coroutines, one per task
    finished,            \* indices of the units in the order they finished
    processed_results,   \* the list process_batch returns
    \* TinybirdBatcher
    bt_cfg,              \* constructor arguments, TINYBIRD_TOKEN, what the caller will add
    bt_state,            \* "new", "active" (__aenter__ returned), "closing" (in __aexit__), "closed"
    client,              \* self._client: "none", "open" or "closed"
    scopes,              \* number of `async with` blocks entered and not left
    buffer,              \* self._buffer, the records numbered in the order of the adds
    n_added,             \* number of add calls made so far
    lock,                \* holder of self._lock, or "free"
    waiters,             \* the coroutines waiting for self._lock, in the order they came
    cpc,                 \* position of each calling coroutine
    timer,               \* position of the _flush_timer task self._flush_task refers to
    timer_tasks,         \* the _flush_timer tasks created so far: running, cancelling or done
    sleep_left,          \* ticks until the timer's asyncio.sleep returns
    since_add,           \* ticks since self._last_add_time, counted up to the timeout
    delivery,            \* the _send_batch_with_retry call in progress, if any
    last_flush,          \* how the latest batch left the buffer and what became of it
    metrics,             \* _total_records, _total_batches, _failed_batches, _total_retries
    flushes,             \* number of flushes started, by what started them
    flushed,             \* for each record, the number of flushes that took it from the buffer
    sink,                \* what the ingestion endpoint will answer to the next posts
    \* functions checked call by call
    fn_args,             \* the arguments of the call
    fn_ret,              \* <<>> until the call returns, then <<what it returned>>
    \* submit_scrape and process_batch_with_job
    j_in,                \* the request, and what the batch, the webhook and the sink will do
    j_pc,                \* position of the job's run
    job,                 \* the JobRecord
    snapshots,           \* the records handed to insert_job, in order
    posts                \* number of POSTs made to the webhook URL

config_vars == <<env_retries, primary, ml_force>>
task_vars == <<item, task, pc, result, attempt_order, idx, retry, attempt_result,
               screenshot_url, last_screenshot_url, last_error, output, calls>>
batch_vars == <<env_max_concurrency, urls_data, services, b_pc, processed_items, semaphore,
                units, finished, processed_results>>

batcher_vars == <<bt_cfg, bt_state, client, scopes, buffer, n_added, lock, waiters, cpc, timer,
                  timer_tasks, sleep_left,
                  since_add, delivery, last_flush, metrics, flushes, flushed, sink>>

fn_vars == <<fn_args, fn_ret>>
job_vars == <<j_in, j_pc, job, snapshots, posts>>

\* what a step of a single scrape_url run leaves alone
outside_task == <<batch_vars, batcher_vars, fn_vars, job_vars>>
\* what a step of process_batch leaves alone
outside_batch == <<task_vars, batcher_vars, fn_vars, job_vars>>
\* what a step of the batcher leaves alone
outside_batcher == <<config_vars, task_vars, batch_vars, fn_vars, job_vars>>
\* what a single function call leaves alone
outside_fn == <<config_vars, task_vars, batch_vars, batcher_vars, job_vars>>
\* what a step of a job's run leaves alone
outside_job == <<config_vars, task_vars, batch_vars, batcher_vars, fn_vars>>

vars == <<config_vars, task_vars, batch_vars, batcher_vars, fn_vars, job_vars>>

(***************************************************************************)
(* Program constants                                                       *)
(***************************************************************************)
None == "<None>"

MIN_HTML_SIZE == 5000
METHOD_FIRECRAWL == "firecrawl"
METHOD_BRIGHTDATA == "brightdata"
METHOD_PLAYWRIGHT == "playwright"
PRIMARY_FIRECRAWL == "firecrawl"
PRIMARY_BRIGHTDATA == "brightdata"
DEFAULT_FIRECRAWL_RETRIES == 1
DEFAULT_BRIGHTDATA_RETRIES == 3
DEFAULT_PLAYWRIGHT_RETRIES == 2

Methods == {METHOD_FIRECRAWL, METHOD_BRIGHTDATA, METHOD_PLAYWRIGHT}

\* all_methods[m][0]: the display name written into result.attempts
MethodName(m) ==
    CASE m = METHOD_FIRECRAWL -> "Firecrawl"
      [] m = METHOD_BRIGHTDATA -> "Bright Data"
      [] m = METHOD_PLAYWRIGHT -> "Playwright"

DefaultRetries ==
    (METHOD_FIRECRAWL :> DEFAULT_FIRECRAWL_RETRIES)
    @@ (METHOD_BRIGHTDATA :> DEFAULT_BRIGHTDATA_RETRIES)
    @@ (METHOD_PLAYWRIGHT :> DEFAULT_PLAYWRIGHT_RETRIES)

(***************************************************************************)
(* Retry configuration read from the environment                          *)
(***************************************************************************)
\* an environment value: blank/unset, an integer literal, or unparsable text
EnvBlank == [kind |-> "blank", n |-> 0]
EnvInt(k) == [kind |-> "int", n |-> k]
EnvBad == [kind |-> "bad", n |-> 0]

Max(a, b) == IF a >= b THEN a ELSE b

\* mutant: the floor of the parsed count is 1 instead of 0
get_retry_value_FloorOne(value, default) ==
    IF value.kind = "blank" THEN default
    ELSE IF value.kind = "int" THEN Max(1, value.n)
    ELSE default

get_retry_value(value, default) ==
    IF value.kind = "blank" THEN default
    ELSE IF value.kind = "int" THEN Max(0, value.n)
    ELSE default

get_retries_config(env) == [m \in Methods |-> get_retry_value(env[m], DefaultRetries[m])]

retries_config == get_retries_config(env_retries)

(***************************************************************************)
(* Dict helpers                                                            *)
(***************************************************************************)
EmptyDict == [k \in {} |-> None]
Has(d, k) == k \in DOMAIN d
Put(d, k, v) == [x \in DOMAIN d \cup {k} |-> IF x = k THEN v ELSE d[x]]
Del(d, k) == [x \in DOMAIN d \ {k} |-> d[x]]
\* setattr(obj, k, v) where v may be None
PutOpt(d, k, v) == IF v = None THEN Del(d, k) ELSE Put(d, k, v)
Update(d, e) == [x \in DOMAIN d \cup DOMAIN e |-> IF x \in DOMAIN e THEN e[x] ELSE d[x]]

(***************************************************************************)
(* Input helpers                                                           *)
(***************************************************************************)
\* str.strip() on the URL strings the model feeds in
Strip(u) ==
    CASE u = " " -> ""
      [] u = " https://loja.example/p/1 " -> "https://loja.example/p/1"
      [] OTHER -> u

\* extract_url_from_item: `item.get("url") or item.get("productUrl")` takes the
\* first value that is not falsy ("" is falsy, " " is not); the value chosen is
\* returned stripped, or None when it is blank once stripped.
extract_url_from_item(it) ==
    LET u == IF Has(it, "url") /\ it["url"] # "" THEN it["url"]
             ELSE IF Has(it, "productUrl") THEN it["productUrl"] ELSE ""
    IN IF u # "" /\ Strip(u) # "" THEN Strip(u) ELSE None

\* field_mappings of extract_initial_data, in dict order: <<input, output>>
field_mappings == <<
    <<"urlId", "urlId">>, <<"productId", "productId">>, <<"sellerId", "sellerId">>,
    <<"alertId", "alertId">>, <<"companyName", "companyName">>, <<"hasAlert", "hasAlert">>,
    <<"screenshotId", "screenshotId">>, <<"productTitle", "productTitle">>,
    <<"productName", "productName">>, <<"brand", "brand">>, <<"brandName", "brandName">>,
    <<"seller", "seller">>, <<"sellerName", "sellerName">>,
    <<"currentPrice", "currentPrice">>, <<"originalPrice", "originalPrice">>,
    <<"discountPercentage", "discountPercentage">>, <<"currency", "currency">>,
    <<"minPrice", "minPrice">>, <<"maxPrice", "maxPrice">>, <<"alertsEnabled", "alertsEnabled">>,
    <<"availability", "availability">>, <<"imageUrl", "product_image_url">>,
    <<"product_image_url", "product_image_url">>, <<"shippingInfo", "shippingInfo">>,
    <<"shippingCost", "shippingCost">>, <<"deliveryTime", "deliveryTime">>,
    <<"review_score", "review_score">>, <<"installmentOptions", "installmentOptions">>,
    <<"kit", "kit">>, <<"unitMeasurement", "unitMeasurement">>,
    <<"outOfStockReason", "outOfStockReason">>, <<"marketplaceWebsite", "marketplaceWebsite">>,
    <<"sku", "sku">>, <<"ean", "ean">>, <<"stockQuantity", "stockQuantity">>,
    <<"otherPaymentMethods", "otherPaymentMethods">>, <<"promotionDetails", "promotionDetails">>,
    <<"businessId", "businessId">>, <<"businessName", "businessName">>,
    <<"channelId", "channelId">>, <<"channelName", "channelName">>,
    <<"familyId", "familyId">>, <<"familyName", "familyName">> >>

RECURSIVE InitialDataFrom(_, _, _)
InitialDataFrom(it, i, acc) ==
    IF i > Len(field_mappings) THEN acc
    ELSE LET in == field_mappings[i][1]
             out == field_mappings[i][2]
         IN IF Has(it, in) /\ ~Has(acc, out)
            THEN InitialDataFrom(it, i + 1, Put(acc, out, it[in]))
            ELSE InitialDataFrom(it, i + 1, acc)

extract_initial_data(it) == InitialDataFrom(it, 1, EmptyDict)

\* mutant: scraped values win over the initial data
merge_with_initial_data_ScrapedWins(res, initial_data) ==
    IF DOMAIN initial_data = {} THEN res ELSE Update(initial_data, res)

\* "initial data always overrides scraped data"
merge_with_initial_data(res, initial_data) ==
    IF DOMAIN initial_data = {} THEN res ELSE Update(res, initial_data)

\* method.lower().strip().replace(" ","").replace("_","").replace("-","")
\* on the method strings the model feeds in
NormalizeMethod(m) ==
    CASE m = "Bright Data" -> "brightdata"
      [] m = "bright_data" -> "brightdata"
      [] m = "FC" -> "fc"
      [] m = "play-wright" -> "playwright"
      [] OTHER -> m

method_mapping ==
    [firecrawl |-> METHOD_FIRECRAWL, fc |-> METHOD_FIRECRAWL,
     brightdata |-> METHOD_BRIGHTDATA, bd |-> METHOD_BRIGHTDATA,
     playwright |-> METHOD_PLAYWRIGHT, playwrite |-> METHOD_PLAYWRIGHT,
     pw |-> METHOD_PLAYWRIGHT]

parse_method_preference(m) ==
    IF m = None \/ m = "" THEN None
    ELSE IF Has(method_mapping, NormalizeMethod(m))
         THEN method_mapping[NormalizeMethod(m)] ELSE None

\* "mercadolivre" in url.lower(), on the URLs the model feeds in
IsMercadoLivreUrl(u) == u = "https://produto.MercadoLivre.com.br/MLB-1"

should_force_brightdata_for_url(u) == ml_force /\ IsMercadoLivreUrl(u)

(***************************************************************************)
(* The normalised task (process_batch pre-processing of the item)          *)
(***************************************************************************)
\* lines 2128-2153: the entry appended to processed_items
ProcessedItem(it) ==
    [url_id |-> it["urlId"],
     url |-> extract_url_from_item(it),
     method |-> IF Has(it, "method") THEN it["method"] ELSE None,
     initial_data |-> extract_initial_data(it)]

(***************************************************************************)
(* Provider adapters, seen from what the provider answers                  *)
(***************************************************************************)
\* "raise": an exception escapes the adapter (raised outside its try block);
\* "unconfigured": the adapter finds its API key unset in the environment;
\* "timeout": the HTTP call times out; "page": the provider returns markup of
\* html_len bytes, with or without a usable screenshot.
ProviderResponses ==
    {[kind |-> "raise", html_len |-> 0, shot |-> FALSE],
     [kind |-> "unconfigured", html_len |-> 0, shot |-> FALSE],
     [kind |-> "timeout", html_len |-> 0, shot |-> FALSE],
     [kind |-> "page", html_len |-> MIN_HTML_SIZE - 1, shot |-> FALSE],
     [kind |-> "page", html_len |-> MIN_HTML_SIZE, shot |-> FALSE],
     [kind |-> "page", html_len |-> MIN_HTML_SIZE, shot |-> TRUE]}

ExceptionText == "adapter import failed"

TimeoutError(m) ==
    IF m = METHOD_PLAYWRIGHT THEN "Playwright error: Timeout exceeded"
    ELSE MethodName(m) \o " timeout"

\* lines 1107-1109 and 1194-1198: the adapters that read an API key
NeedsKey == {METHOD_FIRECRAWL, METHOD_BRIGHTDATA}

NotConfigured(m) ==
    IF m = METHOD_FIRECRAWL THEN "FIRECRAWL_API_KEY not configured"
    ELSE "BRIGHT_DATA_API not configured"

\* what the adapter of method m can meet
ResponsesOf(m) ==
    {r \in ProviderResponses : r.kind = "unconfigured" => m \in NeedsKey}

\* attempt_firecrawl_async / attempt_brightdata_async / attempt_playwright_async
attempt_async(m, resp) ==
    IF resp.kind = "unconfigured"
    THEN [success |-> FALSE, screenshot_bytes |-> FALSE, error |-> NotConfigured(m), method |-> m]
    ELSE IF resp.kind = "timeout"
    THEN [success |-> FALSE, screenshot_bytes |-> FALSE, error |-> TimeoutError(m), method |-> m]
    ELSE IF resp.html_len < MIN_HTML_SIZE
    THEN [success |-> FALSE, screenshot_bytes |-> FALSE,
          error |-> MethodName(m) \o " HTML too small (" \o ToString(resp.html_len) \o " bytes)",
          method |-> m]
    ELSE [success |-> TRUE, screenshot_bytes |-> resp.shot, error |-> None, method |-> m]

(***************************************************************************)
(* Extraction adapter                                                      *)
(***************************************************************************)
\* `x.get(k)` used as a condition: absent, None, 0 and "" are falsy
Truthy(d, k) == Has(d, k) /\ d[k] # 0

GeminiResponses ==
    {[kind |-> "json", data |-> [productTitle |-> "Colirio"]],
     [kind |-> "json", data |-> [productTitle |-> "Colirio", currentPrice |-> 10]],
     [kind |-> "json", data |-> [currentPrice |-> 0, originalPrice |-> 20]],
     [kind |-> "raise", data |-> EmptyDict]}

\* extract_product_data_async: (data, None) or (None, error)
extract_product_data_async(raw) ==
    IF raw.kind = "raise"
    THEN [has_data |-> FALSE, data |-> EmptyDict, error |-> "Extraction error: model overloaded"]
    ELSE IF ~Truthy(raw.data, "currentPrice") /\ ~Truthy(raw.data, "originalPrice")
    THEN [has_data |-> FALSE, data |-> EmptyDict, error |-> "Could not extract price. Got: {...}"]
    ELSE [has_data |-> TRUE, data |-> raw.data, error |-> None]

\* the fields scrape_url copies from product_data into the result
ExtractedFieldNames ==
    {"productTitle", "brand", "currentPrice", "originalPrice", "discountPercentage",
     "currency", "availability", "product_image_url", "seller", "shippingInfo",
     "shippingCost", "deliveryTime", "review_score", "installmentOptions", "kit",
     "unitMeasurement", "outOfStockReason", "marketplaceWebsite", "sku", "ean",
     "stockQuantity", "otherPaymentMethods", "promotionDetails"}

\* for field in [...]: setattr(result, field, product_data.get(field))
SetExtractedFields(res, data) ==
    [k \in (DOMAIN res \ ExtractedFieldNames) \cup (DOMAIN data \cap ExtractedFieldNames) |->
        IF k \in ExtractedFieldNames THEN data[k] ELSE res[k]]

(***************************************************************************)
(* Screenshot processing                                                   *)
(***************************************************************************)
\* compress_image returns the compressed bytes or raises
CompressOutcomes == {"compressed", "compress_raise"}
\* upload_to_r2_async returns (url, None) or (None, err), or raises what
\* get_r2_client raises (it is called outside the try of upload_to_r2_sync)
UploadOutcomes == {"uploaded", "upload_error", "upload_raise"}

UploadErrorText == "R2 upload error: access denied"
UploadRaiseText == "Invalid endpoint: https://a b.r2.cloudflarestorage.com"
CompressErrorText == "cannot identify image file"

UploadedUrl(url_id, n) ==
    "https://cdn.example/screenshots/" \o url_id \o "_" \o ToString(n) \o ".webp"

(***************************************************************************)
(* ScrapeResult                                                            *)
(***************************************************************************)
ScrapedAt == 1700000000

\* ScrapeResult(urlId=url_id, url=url, status="error", scrapedAt=..., attempts=[], errors=[])
NewScrapeResult(url_id, url) ==
    [urlId |-> url_id, url |-> url, status |-> "error", scrapedAt |-> ScrapedAt,
     attempts |-> <<>>, errors |-> <<>>]

\* ScrapeResult.to_dict: url is emitted as productUrl, None fields are omitted
to_dict(res) ==
    [k \in (DOMAIN res \ {"url"}) \cup {"productUrl"} |->
        IF k = "productUrl" THEN res["url"] ELSE res[k]]

ErrorEntry(m, op, err) == [method |-> m, operation |-> op, error |-> err]

\* `x or default` on an optional string
OrElse(x, default) == IF x = None \/ x = "" THEN default ELSE x

(***************************************************************************)
(* Routing-order resolution                                                *)
(***************************************************************************)
DefaultOrder == <<METHOD_FIRECRAWL, METHOD_BRIGHTDATA, METHOD_PLAYWRIGHT>>
BrightDataFirstOrder == <<METHOD_BRIGHTDATA, METHOD_FIRECRAWL, METHOD_PLAYWRIGHT>>

\* mutant: disabled methods are not filtered out
FilterEnabled_KeepAll(seq, cfg) == SelectSeq(seq, LAMBDA m : cfg[m] >= 0)

\* [m for m in attempt_order if retries_config.get(m, 0) > 0]
FilterEnabled(seq, cfg) == SelectSeq(seq, LAMBDA m : cfg[m] > 0)

\* mutant: the URL rule is tested before the explicit preference
BuildAttemptOrder_UrlRuleFirst(preferred_method, url_forced_brightdata, prim) ==
    IF url_forced_brightdata THEN BrightDataFirstOrder
    ELSE IF preferred_method # None /\ preferred_method \in Methods
    THEN <<preferred_method>> \o SelectSeq(DefaultOrder, LAMBDA m : m # preferred_method)
    ELSE IF prim = PRIMARY_BRIGHTDATA THEN BrightDataFirstOrder
    ELSE DefaultOrder

BuildAttemptOrder(preferred_method, url_forced_brightdata, prim) ==
    IF preferred_method # None /\ preferred_method \in Methods
    THEN <<preferred_method>> \o SelectSeq(DefaultOrder, LAMBDA m : m # preferred_method)
    ELSE IF url_forced_brightdata THEN BrightDataFirstOrder
    ELSE IF prim = PRIMARY_BRIGHTDATA THEN BrightDataFirstOrder
    ELSE DefaultOrder

\* mutant: the URL rule is never applied
ResolveOrder_NoUrlRule(method, url, prim, cfg) ==
    FilterEnabled(BuildAttemptOrder(parse_method_preference(method), FALSE, prim), cfg)

\* lines 1902-1925: the order built from the task and the configuration, filtered
ResolveOrder(method, url, prim, cfg) ==
    FilterEnabled(
        BuildAttemptOrder(parse_method_preference(method),
                          should_force_brightdata_for_url(url), prim),
        cfg)

(***************************************************************************)
(* Inputs                                                                  *)
(***************************************************************************)
PlainUrl == "https://loja.example/p/1"
MercadoLivreUrl == "https://produto.MercadoLivre.com.br/MLB-1"

\* the URL arrives under either accepted key
UrlInputs == {[url |-> PlainUrl], [productUrl |-> MercadoLivreUrl]}

\* absent, valid spellings of two providers, and an unknown name
MethodInputs == {EmptyDict, [method |-> "Bright Data"], [method |-> "pw"],
                 [method |-> "selenium"]}

OverrideInputs == {EmptyDict, [currentPrice |-> 12, productName |-> "Colirio Cadastrado"]}

Items == {Update(Update(Update([urlId |-> "u1"], u), m), o) :
            u \in UrlInputs, m \in MethodInputs, o \in OverrideInputs}

\* every retry variable is either unset (default count) or "0" (disabled)
RetryEnvs == [Methods -> {EnvBlank, EnvInt(0)}]
DefaultEnv == [m \in Methods |-> EnvBlank]
\* every retry variable is "1" (one try) or "0" (disabled)
SingleTryEnvs == [Methods -> {EnvInt(1), EnvInt(0)}]

\* the tasks that differ in what routes them: URL and method preference
RoutingItems == {it \in Items : ~Has(it, "currentPrice")}
\* the tasks routed by the primary order alone: no method preference, plain URL
PlainItems == {it \in Items : ~Has(it, "method") /\ Has(it, "url")}
\* the one of them without override fields
DefaultRunItems == PlainItems \cap RoutingItems

NoOutput == EmptyDict

\* the AttemptResult of a pass that has none yet (attempt_result = None)
NoAttemptResult == EmptyDict

\* process_batch is not running
BatchIdle ==
    /\ env_max_concurrency = EnvBlank
    /\ urls_data = <<>>
    /\ services = EmptyDict
    /\ b_pc = "idle"
    /\ processed_items = <<>>
    /\ semaphore = 0
    /\ units = <<>>
    /\ finished = <<>>
    /\ processed_results = <<>>

FnIdle == fn_args = EmptyDict /\ fn_ret = <<>>

JobIdle ==
    /\ j_in = EmptyDict
    /\ j_pc = "none"
    /\ job = EmptyDict
    /\ snapshots = <<>>
    /\ posts = 0

\* no TinybirdBatcher exists
NoBatcher ==
    /\ bt_cfg = EmptyDict
    /\ bt_state = "none"
    /\ client = "none"
    /\ scopes = 0
    /\ buffer = <<>>
    /\ n_added = 0
    /\ lock = "free"
    /\ waiters = <<>>
    /\ cpc = EmptyDict
    /\ timer = "off"
    /\ timer_tasks = <<>>
    /\ sleep_left = 0
    /\ since_add = 0
    /\ delivery = EmptyDict
    /\ last_flush = EmptyDict
    /\ metrics = EmptyDict
    /\ flushes = EmptyDict
    /\ flushed = EmptyDict

BatcherIdle == NoBatcher /\ sink = <<>>

\* Every routing input is combined with every configuration of one try or
\* none per method; the tasks routed by the primary order are run, with and
\* without override fields, under every configuration that disables at least
\* one method and leaves the others at their default counts; the all-default
\* configuration, whose runs are the longest, is run on the plain task.
Init ==
    /\ \/ /\ env_retries \in SingleTryEnvs
          /\ primary \in {PRIMARY_FIRECRAWL, PRIMARY_BRIGHTDATA}
          /\ ml_force \in BOOLEAN
          /\ item \in RoutingItems
       \/ /\ env_retries \in RetryEnvs \ {DefaultEnv}
          /\ primary = PRIMARY_FIRECRAWL
          /\ ml_force = FALSE
          /\ item \in PlainItems
       \/ /\ env_retries = DefaultEnv
          /\ primary = PRIMARY_FIRECRAWL
          /\ ml_force = FALSE
          /\ item \in DefaultRunItems
    /\ task = ProcessedItem(item)
    /\ pc = "start"
    /\ result = EmptyDict
    /\ attempt_order = <<>>
    /\ idx = 0
    /\ retry = 0
    /\ attempt_result = NoAttemptResult
    /\ screenshot_url = None
    /\ last_screenshot_url = None
    /\ last_error = None
    /\ output = NoOutput
    /\ calls = <<>>
    /\ BatchIdle
    /\ BatcherIdle
    /\ FnIdle
    /\ JobIdle

(***************************************************************************)
(* scrape_url                                                              *)
(***************************************************************************)
DisabledMessage == "All scraping methods are disabled (all retry counts set to 0)"

\* lines 1886-1933: build the result, resolve the order, fail if it is empty
Start ==
    /\ pc = "start"
    /\ LET order == ResolveOrder(task.method, task.url, primary, retries_config)
           res == NewScrapeResult(task.url_id, task.url)
           disabled == Put(Put(res, "status", "error"), "errorMessage", DisabledMessage)
       IN /\ attempt_order' = order
          /\ IF order = <<>>
             THEN /\ result' = disabled
                  /\ output' = merge_with_initial_data(to_dict(disabled), task.initial_data)
                  /\ pc' = "returned"
                  /\ idx' = 0
             ELSE /\ result' = res
                  /\ output' = output
                  /\ pc' = "attempt"
                  /\ idx' = 1
    /\ retry' = 0
    /\ UNCHANGED <<env_retries, primary, ml_force, item, task, attempt_result,
                   screenshot_url, last_screenshot_url, last_error, calls>>
    /\ UNCHANGED outside_task

\* mutant: the exhausted record is given a third status value
AllFailed_StatusFailed(res, lastErr, lastShot) ==
    PutOpt(Put(Put(Put(res, "status", "failed"), "method", "erro"),
               "errorMessage", OrElse(lastErr, "All methods failed")),
           "screenshotUrl", lastShot)

\* mutant: the exhausted record always carries the generic message
AllFailed_GenericMessage(res, lastErr, lastShot) ==
    PutOpt(Put(Put(Put(res, "status", "error"), "method", "erro"),
               "errorMessage", "All methods failed"),
           "screenshotUrl", lastShot)

\* lines 2049-2054: the record when every method failed
AllFailed(res, lastErr, lastShot) ==
    PutOpt(Put(Put(Put(res, "status", "error"), "method", "erro"),
               "errorMessage", OrElse(lastErr, "All methods failed")),
           "screenshotUrl", lastShot)

\* mutant: a method with retries left is tried again instead of being left
NextMethod_RetrySame(res, lastErr, lastShot) ==
    IF retry + 1 < retries_config[attempt_order[idx]]
    THEN /\ retry' = retry + 1
         /\ pc' = "attempt"
         /\ result' = res
         /\ UNCHANGED <<idx, output>>
    ELSE IF idx < Len(attempt_order)
    THEN /\ idx' = idx + 1
         /\ retry' = 0
         /\ pc' = "attempt"
         /\ result' = res
         /\ output' = output
    ELSE /\ result' = AllFailed(res, lastErr, lastShot)
         /\ output' = merge_with_initial_data(to_dict(AllFailed(res, lastErr, lastShot)),
                                              task.initial_data)
         /\ pc' = "returned"
         /\ UNCHANGED <<idx, retry>>

\* the outer for loop moves to the next method, or falls out to "All failed"
NextMethod(res, lastErr, lastShot) ==
    IF idx < Len(attempt_order)
    THEN /\ idx' = idx + 1
         /\ retry' = 0
         /\ pc' = "attempt"
         /\ result' = res
         /\ output' = output
    ELSE /\ result' = AllFailed(res, lastErr, lastShot)
         /\ output' = merge_with_initial_data(to_dict(AllFailed(res, lastErr, lastShot)),
                                              task.initial_data)
         /\ pc' = "returned"
         /\ UNCHANGED <<idx, retry>>

\* mutant: a retry is logged like a first try
AttemptEntry_Unmarked(method_name, r) == method_name

\* lines 1946-1949
AttemptEntry(method_name, r) ==
    IF r = 0 THEN method_name ELSE method_name \o " (retry " \o ToString(r) \o ")"

\* mutant: only the first try of a method is logged
LogAttempt_FirstTryOnly(res, method_name, r) ==
    IF r = 0 THEN [res EXCEPT !["attempts"] = Append(@, AttemptEntry(method_name, r))]
    ELSE res

LogAttempt(res, method_name, r) ==
    [res EXCEPT !["attempts"] = Append(@, AttemptEntry(method_name, r))]

\* mutant: the range is one too long
InRange_Inclusive(r, max_retries) == r <= max_retries

\* `for retry in range(max_retries)`: is r a value of the range
InRange(r, max_retries) == r < max_retries

\* mutant: a task without an uploaded screenshot is not marked completed
Completed_NeedsScreenshot(res, ar, shot_url, data) ==
    LET r1 == PutOpt(Put(Put(res, "status", IF shot_url = None THEN "error" ELSE "completed"),
                         "method", ar.method),
                     "screenshotUrl", shot_url)
        r2 == IF r1["errors"] = <<>> THEN Del(r1, "errors") ELSE r1
    IN SetExtractedFields(r2, data)

\* mutant: the extracted fields are stored but the status is left as constructed
Completed_StatusLeftError(res, ar, shot_url, data) ==
    LET r1 == PutOpt(Put(res, "method", ar.method), "screenshotUrl", shot_url)
        r2 == IF r1["errors"] = <<>> THEN Del(r1, "errors") ELSE r1
    IN SetExtractedFields(r2, data)

\* mutant: the errors of earlier attempts are cleared on success
Completed_ErrorsCleared(res, ar, shot_url, data) ==
    LET r1 == PutOpt(Put(Put(res, "status", "completed"), "method", ar.method),
                     "screenshotUrl", shot_url)
    IN SetExtractedFields(Del(r1, "errors"), data)

\* mutant: a completed record falls back on the last uploaded screenshot
Completed_LastScreenshot(res, ar, shot_url, data) ==
    LET r1 == PutOpt(Put(Put(res, "status", "completed"), "method", ar.method),
                     "screenshotUrl", OrElse(shot_url, last_screenshot_url))
        r2 == IF r1["errors"] = <<>> THEN Del(r1, "errors") ELSE r1
    IN SetExtractedFields(r2, data)

\* lines 2012-2027: the completed record
Completed(res, ar, shot_url, data) ==
    LET r1 == PutOpt(Put(Put(res, "status", "completed"), "method", ar.method),
                     "screenshotUrl", shot_url)
        r2 == IF r1["errors"] = <<>> THEN Del(r1, "errors") ELSE r1
    IN SetExtractedFields(r2, data)

\* lines 1942-1949: the retry loop takes its next value and logs the attempt;
\* the adapter is called and the task waits for it
BeginPass ==
    /\ pc = "attempt"
    /\ LET method_key == attempt_order[idx]
           method_name == MethodName(method_key)
           max_retries == retries_config[method_key]
       IN IF ~InRange(retry, max_retries)
          THEN NextMethod(result, last_error, last_screenshot_url)
          ELSE /\ result' = LogAttempt(result, method_name, retry)
               /\ pc' = "fetch"
               /\ UNCHANGED <<idx, retry, output>>
    /\ UNCHANGED <<env_retries, primary, ml_force, item, task, attempt_order, attempt_result,
                   screenshot_url, last_screenshot_url, last_error, calls>>
    /\ UNCHANGED outside_task

\* lines 1951-1987: `await attempt_func(url, url_id)` returns or raises.  A
\* failed call is logged and the loop goes on; after a successful one the
\* screenshot, if there is one, is compressed and the task waits for the upload,
\* or, without a screenshot to upload, for the extraction.
Fetch(resp, comp) ==
    /\ pc = "fetch"
    /\ resp \in ResponsesOf(attempt_order[idx])
    /\ LET method_key == attempt_order[idx]
           method_name == MethodName(method_key)
           max_retries == retries_config[method_key]
           raised == resp.kind = "raise"
           ar == attempt_async(method_key, resp)
           error_msg == method_name \o " exception: " \o ExceptionText
           failed == raised \/ ~ar.success
           scrape_entry == IF raised THEN ErrorEntry(method_key, "scrape", error_msg)
                           ELSE ErrorEntry(method_key, "scrape", OrElse(ar.error, "Unknown error"))
           scrape_last == IF raised THEN error_msg ELSE ar.error
           errored == [result EXCEPT !["errors"] = Append(@, scrape_entry)]
           fetched == [op |-> "fetch", method |-> method_key, ok |-> ~failed]
           uncompressed == [result EXCEPT !["errors"] =
                               Append(@, ErrorEntry(method_key, "screenshot_process",
                                                    CompressErrorText))]
       IN IF failed
          THEN /\ calls' = Append(calls, fetched)
               /\ last_error' = scrape_last
               /\ IF InRange(retry + 1, max_retries)
                  THEN /\ retry' = retry + 1
                       /\ pc' = "attempt"
                       /\ result' = errored
                       /\ UNCHANGED <<idx, output>>
                  ELSE NextMethod(errored, scrape_last, last_screenshot_url)
               /\ UNCHANGED <<attempt_result, screenshot_url, last_screenshot_url>>
          ELSE /\ attempt_result' = ar
               /\ screenshot_url' = None
               /\ IF ~ar.screenshot_bytes
                  THEN /\ calls' = Append(calls, fetched)
                       /\ result' = result
                       /\ pc' = "extract"
                  ELSE IF comp = "compress_raise"
                  THEN /\ calls' = calls \o <<fetched, [op |-> "screenshot",
                                                        method |-> method_key, ok |-> FALSE]>>
                       /\ result' = uncompressed
                       /\ pc' = "extract"
                  ELSE /\ calls' = Append(calls, fetched)
                       /\ result' = result
                       /\ pc' = "upload"
               /\ UNCHANGED <<idx, retry, output, last_error, last_screenshot_url>>
    /\ UNCHANGED <<env_retries, primary, ml_force, item, task, attempt_order>>
    /\ UNCHANGED outside_task

\* lines 1988-2005: `await upload_to_r2_async(compressed, url_id)` returns, or
\* raises into the `except Exception` of line 1999; the task then waits for
\* the extraction
Upload(up) ==
    /\ pc = "upload"
    /\ LET method_key == attempt_order[idx]
           url == UploadedUrl(task.url_id, Len(calls) - 1)
       IN /\ calls' = Append(calls, [op |-> "screenshot", method |-> method_key,
                                     ok |-> up = "uploaded"])
          /\ IF up = "uploaded"
             THEN /\ screenshot_url' = url
                  /\ last_screenshot_url' = url
                  /\ result' = result
             ELSE IF up = "upload_error"
             THEN /\ result' = [result EXCEPT !["errors"] =
                                   Append(@, ErrorEntry("r2", "upload", UploadErrorText))]
                  /\ UNCHANGED <<screenshot_url, last_screenshot_url>>
             ELSE /\ result' = [result EXCEPT !["errors"] =
                                   Append(@, ErrorEntry(method_key, "screenshot_process",
                                                        UploadRaiseText))]
                  /\ UNCHANGED <<screenshot_url, last_screenshot_url>>
    /\ pc' = "extract"
    /\ UNCHANGED <<env_retries, primary, ml_force, item, task, attempt_order, idx, retry,
                   attempt_result, last_error, output>>
    /\ UNCHANGED outside_task

\* lines 2008-2047: `await extract_product_data_async(...)` returns: the
\* record is completed, or the failure is logged and the outer loop goes on.
\* attempt_result and screenshot_url are not read again before they are set.
Extract(raw) ==
    /\ pc = "extract"
    /\ LET method_key == attempt_order[idx]
           ex == extract_product_data_async(raw)
           found == /\ ex.has_data
                    /\ DOMAIN ex.data # {}
                    /\ (Truthy(ex.data, "currentPrice") \/ Truthy(ex.data, "originalPrice"))
           msg == OrElse(ex.error, "Could not extract price")
           base == [method |-> "gemini", operation |-> "extraction", error |-> msg]
           error_entry == IF screenshot_url # None
                          THEN Put(base, "screenshotUrl", screenshot_url) ELSE base
           shot_last == IF screenshot_url # None THEN screenshot_url ELSE last_screenshot_url
       IN /\ calls' = Append(calls, [op |-> "extract", method |-> method_key, ok |-> found])
          /\ IF found
             THEN /\ result' = Completed(result, attempt_result, screenshot_url, ex.data)
                  /\ output' = merge_with_initial_data(
                                   to_dict(Completed(result, attempt_result, screenshot_url,
                                                     ex.data)),
                                   task.initial_data)
                  /\ pc' = "returned"
                  /\ UNCHANGED <<idx, retry, last_error, last_screenshot_url>>
             ELSE /\ last_error' = msg
                  /\ last_screenshot_url' = shot_last
                  /\ NextMethod([result EXCEPT !["errors"] = Append(@, error_entry)],
                                msg, shot_last)
    /\ attempt_result' = NoAttemptResult
    /\ screenshot_url' = None
    /\ UNCHANGED <<env_retries, primary, ml_force, item, task, attempt_order>>
    /\ UNCHANGED outside_task

(***************************************************************************)
(* process_batch: an exception escaping the task's unit of work            *)
(***************************************************************************)
RemoteExceptionText == "Function call timed out"

\* lines 2174-2186: the synthetic error record
SyntheticErrorResult(t, text) ==
    merge_with_initial_data(
        [urlId |-> t.url_id, productUrl |-> t.url, status |-> "error",
         errorMessage |-> text, scrapedAt |-> ScrapedAt],
        t.initial_data)

\* gather(..., return_exceptions=True) hands back the exception of the unit
TaskRaises ==
    /\ pc \in {"start", "attempt", "fetch", "upload", "extract"}
    /\ output' = SyntheticErrorResult(task, RemoteExceptionText)
    /\ pc' = "raised"
    /\ UNCHANGED <<env_retries, primary, ml_force, item, task, result, attempt_order,
                   idx, retry, attempt_result, screenshot_url, last_screenshot_url,
                   last_error, calls>>
    /\ UNCHANGED outside_task

Next ==
    \/ Start
    \/ BeginPass
    \/ \E resp \in ProviderResponses, comp \in CompressOutcomes : Fetch(resp, comp)
    \/ \E up \in UploadOutcomes : Upload(up)
    \/ \E raw \in GeminiResponses : Extract(raw)
    \/ TaskRaises

Spec == Init /\ [][Next]_vars

TypeOK ==
    /\ pc \in {"start", "attempt", "fetch", "upload", "extract", "returned", "raised"}
    /\ idx \in 0..3
    /\ retry >= 0

(***************************************************************************)
(* Vocabulary of the properties                                            *)
(***************************************************************************)
Returned == pc = "returned"
Done == pc \in {"returned", "raised"}

PreferredMethod == parse_method_preference(task.method)
UrlForced == should_force_brightdata_for_url(task.url)

FetchCount(cs, m) == Cardinality({i \in 1..Len(cs) : cs[i].op = "fetch" /\ cs[i].method = m})
FailedCalls(cs) == SelectSeq(cs, LAMBDA c : ~c.ok)
\* the calls without the screenshot steps
FetchAndExtract(cs) == SelectSeq(cs, LAMBDA c : c.op # "screenshot")

LargestDefault == DEFAULT_BRIGHTDATA_RETRIES
\* the attempt-log entries a method can produce
EntriesOf(m) == {AttemptEntry(MethodName(m), r) : r \in 0..LargestDefault}

\* the operation names an error entry of a failed call can carry
OperationsOf(c) ==
    CASE c.op = "fetch" -> {"scrape"}
      [] c.op = "screenshot" -> {"upload", "screenshot_process"}
      [] c.op = "extract" -> {"extraction"}

\* the task went through every method of a non-empty order without success
Exhausted == /\ Returned
             /\ attempt_order # <<>>
             /\ ~calls[Len(calls)].ok

(***************************************************************************)
(* C1: every record returned by scrape_url, on the completed, exhausted    *)
(* and nothing-enabled paths, has status "completed" or "error", and the   *)
(* merge with the override fields leaves the status as scrape_url set it.  *)
(***************************************************************************)
C1_StatusCompletedOrError ==
    Returned => /\ output["status"] \in {"completed", "error"}
                /\ output["status"] = result["status"]

C1_Witness ==
    /\ Returned
    /\ attempt_order # <<>>
    /\ output["status"] = "error"
    /\ Has(task.initial_data, "currentPrice")

(***************************************************************************)
(* C2: a method whose retry count is configured as 0 is never invoked and  *)
(* never appears in the attempts log, whichever routing rule built the     *)
(* order.                                                                  *)
(***************************************************************************)
C2_DisabledNeverAttempted ==
    \A m \in Methods :
        env_retries[m] = EnvInt(0) =>
            /\ \A i \in 1..Len(calls) : calls[i].method # m
            /\ Has(result, "attempts") =>
                  \A i \in 1..Len(result["attempts"]) : result["attempts"][i] \notin EntriesOf(m)
            /\ Has(output, "attempts") =>
                  \A i \in 1..Len(output["attempts"]) : output["attempts"][i] \notin EntriesOf(m)

C2_Witness ==
    /\ Returned
    /\ PreferredMethod = METHOD_BRIGHTDATA
    /\ env_retries[METHOD_BRIGHTDATA] = EnvInt(0)
    /\ Len(output["attempts"]) > 0

(***************************************************************************)
(* C3 as stated: every task with a valid explicit preferred method has     *)
(* that method as the first entry of its attempts log.                     *)
(***************************************************************************)
C3_PreferredAlwaysFirst ==
    (Returned /\ PreferredMethod # None) =>
        /\ Len(output["attempts"]) > 0
        /\ output["attempts"][1] = MethodName(PreferredMethod)

(***************************************************************************)
(* C3 amended: every task with a valid explicit preferred method whose     *)
(* retry count is above 0 has that method as the first entry of its        *)
(* attempts log, whatever the URL rule and the primary scraper say.        *)
(***************************************************************************)
C3_EnabledPreferredFirst ==
    (Returned /\ PreferredMethod # None /\ retries_config[PreferredMethod] > 0) =>
        /\ Len(output["attempts"]) > 0
        /\ output["attempts"][1] = MethodName(PreferredMethod)

C3_Witness ==
    /\ Returned
    /\ PreferredMethod = METHOD_PLAYWRIGHT
    /\ UrlForced
    /\ primary = PRIMARY_BRIGHTDATA
    /\ retries_config[METHOD_BRIGHTDATA] > 0
    /\ output["attempts"][1] = "Playwright"

(***************************************************************************)
(* C4: a method is invoked at most as many times as its retry count; a     *)
(* failed fetch is followed by another try of the same method while tries  *)
(* remain; and the task leaves a method only when its tries are used up or *)
(* its fetch succeeded.                                                    *)
(***************************************************************************)
\* the invocations of method m made so far: those that are over and the one
\* the task is waiting for
Invoked(cs, at, i, m) ==
    FetchCount(cs, m) + (IF at = "fetch" /\ attempt_order[i] = m THEN 1 ELSE 0)

\* the latest adapter call that is over
LastFetch(cs) ==
    cs[CHOOSE i \in 1..Len(cs) :
          /\ cs[i].op = "fetch"
          /\ \A k \in (i + 1)..Len(cs) : cs[k].op # "fetch"]

C4_Step ==
    /\ \A m \in Methods : Invoked(calls', pc', idx', m) <= retries_config[m]
    /\ pc = "fetch" =>
          LET m == attempt_order[idx]
              fetch == calls'[Len(calls) + 1]
              left == pc' = "returned" \/ idx' # idx
          IN pc' # "raised" =>
                /\ fetch.op = "fetch" /\ fetch.method = m
                /\ (~fetch.ok /\ FetchCount(calls', m) < retries_config[m]) =>
                       (pc' = "attempt" /\ idx' = idx /\ retry' = retry + 1)
                /\ left => (fetch.ok \/ FetchCount(calls', m) = retries_config[m])
    /\ (pc \in {"upload", "extract"} /\ pc' # "raised") =>
          /\ LastFetch(calls).ok
          /\ LastFetch(calls).method = attempt_order[idx]
          /\ FetchCount(calls', attempt_order[idx]) = FetchCount(calls, attempt_order[idx])

C4_RetryBudget == [][C4_Step]_vars

C4_Witness ==
    /\ pc = "attempt"
    /\ FetchCount(calls, METHOD_BRIGHTDATA) = DEFAULT_BRIGHTDATA_RETRIES
    /\ \A i \in 1..Len(calls) : ~calls[i].ok
    /\ attempt_order[idx] = METHOD_PLAYWRIGHT

(***************************************************************************)
(* C5: once the fetch of a method has succeeded, that method is not        *)
(* invoked again in the task, whether or not it has tries left and whether *)
(* or not the extraction on its HTML succeeded.                            *)
(***************************************************************************)
C5_NoCallAfterFetchSuccess ==
    \A i, j \in 1..Len(calls) :
        (i < j /\ calls[i].op = "fetch" /\ calls[i].ok /\ calls[j].op = "fetch") =>
            calls[j].method # calls[i].method

C5_Witness ==
    /\ Len(calls) >= 3
    /\ calls[1] = [op |-> "fetch", method |-> METHOD_BRIGHTDATA, ok |-> TRUE]
    /\ calls[2] = [op |-> "extract", method |-> METHOD_BRIGHTDATA, ok |-> FALSE]
    /\ retries_config[METHOD_BRIGHTDATA] = DEFAULT_BRIGHTDATA_RETRIES
    /\ calls[3].op = "fetch"

(***************************************************************************)
(* C6: a task ends completed exactly when a method's fetch succeeded and   *)
(* the extraction on it returned a price; the record's method is that      *)
(* method, it is the last one attempted, and the outcome is the same       *)
(* whether the screenshot step succeeded, failed or did not run.           *)
(***************************************************************************)
C6_CompletedIffFetchAndPrice ==
    Done =>
        LET n == Len(calls)
            priced == {i \in 1..n : calls[i].op = "extract" /\ calls[i].ok}
        IN /\ (output["status"] = "completed") <=> (priced # {})
           /\ priced # {} =>
                 /\ priced = {n}
                 /\ output["method"] = calls[n].method
                 /\ \E i \in 1..(n - 1) :
                       /\ calls[i] = [op |-> "fetch", method |-> calls[n].method, ok |-> TRUE]
                       /\ \A j \in (i + 1)..n : calls[j].op # "fetch"

C6_Witness ==
    /\ Returned
    /\ output["status"] = "completed"
    /\ output["method"] = METHOD_PLAYWRIGHT
    /\ \E i \in 1..Len(calls) : calls[i].op = "screenshot" /\ ~calls[i].ok
                                  /\ calls[i].method = METHOD_PLAYWRIGHT
    /\ ~Has(output, "screenshotUrl")

(***************************************************************************)
(* C7: when every method of the order was tried without success the record *)
(* has status "error" and method "erro", its errors list holds one entry   *)
(* per failure of the task in the order they happened, and errorMessage is *)
(* the message of the last entry.                                          *)
(***************************************************************************)
C7_ExhaustedRecord ==
    Exhausted =>
        LET errs == output["errors"]
            failures == FailedCalls(calls)
        IN /\ output["status"] = "error"
           /\ output["method"] = "erro"
           /\ Len(errs) = Len(failures)
           /\ \A i \in 1..Len(errs) : errs[i]["operation"] \in OperationsOf(failures[i])
           /\ Len(errs) > 0
           /\ output["errorMessage"] = errs[Len(errs)]["error"]

C7_Witness ==
    /\ Exhausted
    /\ Len(output["errors"]) >= 3
    /\ \E i \in 1..Len(output["errors"]) : output["errors"][i]["operation"] = "upload"
    /\ output["errors"][Len(output["errors"])]["operation"] = "scrape"

(***************************************************************************)
(* C8: when every retry count is 0 the order is empty and the task fails   *)
(* at once with the configuration error: status "error", an empty attempts *)
(* log, and no provider, upload or extraction call at any time.            *)
(***************************************************************************)
C8_AllDisabledFailsAtOnce ==
    (\A m \in Methods : env_retries[m] = EnvInt(0)) =>
        /\ calls = <<>>
        /\ pc \notin {"attempt", "fetch", "upload", "extract"}
        /\ Returned =>
              /\ attempt_order = <<>>
              /\ output["status"] = "error"
              /\ output["errorMessage"] = DisabledMessage
              /\ output["attempts"] = <<>>

C8_Witness ==
    /\ Returned
    /\ \A m \in Methods : retries_config[m] = 0
    /\ PreferredMethod = METHOD_PLAYWRIGHT

(***************************************************************************)
(* C9: with retry counts 1, 3, 2 in the order firecrawl, brightdata,       *)
(* playwright: firecrawl's only try fails, brightdata's first try is too   *)
(* small, its second try fetches but no price is extracted, playwright's   *)
(* first try fetches and extracts; then the record is completed, its       *)
(* method is playwright and the attempts log has exactly 4 entries.        *)
(***************************************************************************)
ScenarioA ==
    /\ retries_config = DefaultRetries
    /\ attempt_order = DefaultOrder
    /\ FetchAndExtract(calls) =
          << [op |-> "fetch", method |-> METHOD_FIRECRAWL, ok |-> FALSE],
             [op |-> "fetch", method |-> METHOD_BRIGHTDATA, ok |-> FALSE],
             [op |-> "fetch", method |-> METHOD_BRIGHTDATA, ok |-> TRUE],
             [op |-> "extract", method |-> METHOD_BRIGHTDATA, ok |-> FALSE],
             [op |-> "fetch", method |-> METHOD_PLAYWRIGHT, ok |-> TRUE],
             [op |-> "extract", method |-> METHOD_PLAYWRIGHT, ok |-> TRUE] >>
    /\ result["errors"][2]["error"] = "Bright Data HTML too small (4999 bytes)"

C9_ScenarioA ==
    ScenarioA =>
        /\ Returned
        /\ output["status"] = "completed"
        /\ output["method"] = METHOD_PLAYWRIGHT
        /\ Len(output["attempts"]) = 4

C9_Witness ==
    /\ ScenarioA
    /\ output["attempts"] = <<"Firecrawl", "Bright Data", "Bright Data (retry 1)", "Playwright">>

(***************************************************************************)
(* C10: in every output record (completed, exhausted, nothing enabled, or  *)
(* the synthetic record of an escaped exception) every key of the task's   *)
(* override fields carries the override value, not the scraped one.        *)
(***************************************************************************)
C10_OverrideWins ==
    Done => \A k \in DOMAIN task.initial_data :
                Has(output, k) /\ output[k] = task.initial_data[k]

C10_Witness ==
    /\ Returned
    /\ output["status"] = "completed"
    /\ Truthy(result, "currentPrice")
    /\ result["currentPrice"] = 10
    /\ output["currentPrice"] = 12

(***************************************************************************)
(* C11 as stated: no output record has status "error" while it carries a   *)
(* currentPrice or an originalPrice.                                       *)
(***************************************************************************)
PriceFields == {"currentPrice", "originalPrice"}

C11_NoErrorWithPrice ==
    Done => ~(output["status"] = "error" /\ DOMAIN output \cap PriceFields # {})

(***************************************************************************)
(* C11 amended: the record scrape_url finalises with status "error" holds  *)
(* no price field, and a price field of an output record with status       *)
(* "error" is one of the task's override fields, with the override value.  *)
(***************************************************************************)
C11_ErrorPriceOnlyFromOverride ==
    /\ (Returned /\ result["status"] = "error") => DOMAIN result \cap PriceFields = {}
    /\ (Done /\ output["status"] = "error") =>
          \A k \in DOMAIN output \cap PriceFields :
              Has(task.initial_data, k) /\ output[k] = task.initial_data[k]

C11_Witness ==
    /\ Exhausted
    /\ \E i \in 1..Len(calls) : calls[i].op = "extract" /\ ~calls[i].ok
    /\ output["status"] = "error"
    /\ Has(output, "currentPrice")
    /\ output["currentPrice"] = 12
    /\ ~Has(result, "currentPrice")

\* the step logs a failed fetch whose error is the missing API key
ConfigFailureLogged ==
    /\ pc = "fetch"
    /\ Has(result', "errors")
    /\ Len(result'["errors"]) = Len(result["errors"]) + 1
    /\ LET e == result'["errors"][Len(result'["errors"])]
       IN  /\ e.operation = "scrape"
           /\ e.method \in NeedsKey
           /\ e.error = NotConfigured(e.method)

(***************************************************************************)
(* C33: a provider whose attempt fails because its credentials are missing *)
(* is not retried: right after that failure the orchestrator is at the     *)
(* next provider of the order, or the task has ended, whatever retries the *)
(* provider has left.                                                      *)
(***************************************************************************)
C33_ConfigFailureSkipsProvider ==
    [][ConfigFailureLogged => (pc' = "returned" \/ idx' = idx + 1)]_vars

\* result.screenshotUrl, None when the record has none
ScreenshotOf(res) == IF Has(res, "screenshotUrl") THEN res["screenshotUrl"] ELSE None

\* the URL of the upload made by the screenshot step at position p of the calls
UrlOfUpload(p) == UploadedUrl(task.url_id, p - 2)

Uploads(cs) == {p \in 1..Len(cs) : cs[p].op = "screenshot" /\ cs[p].ok}

\* the last screenshot URL uploaded during the task, None when there is none
LastUploaded(cs) ==
    IF Uploads(cs) = {} THEN None
    ELSE UrlOfUpload(CHOOSE p \in Uploads(cs) : \A q \in Uploads(cs) : q <= p)

\* the task ended on a provider whose page was fetched with a screenshot, and
\* the screenshot step of that provider failed
FinalScreenshotFailed(cs) ==
    /\ Len(cs) >= 3
    /\ cs[Len(cs)].op = "extract"
    /\ cs[Len(cs) - 1].op = "screenshot"
    /\ ~cs[Len(cs) - 1].ok

\* the URL uploaded by the screenshot step of the provider the task ended on
OwnUpload(cs) ==
    IF Len(cs) >= 3 /\ cs[Len(cs)].op = "extract" /\ (Len(cs) - 1) \in Uploads(cs)
    THEN UrlOfUpload(Len(cs) - 1)
    ELSE None

(***************************************************************************)
(* C34 as claimed: when the screenshot step fails for the provider on      *)
(* which the task ends and an earlier provider of the task had a           *)
(* screenshot uploaded, the record's screenshotUrl is the last uploaded    *)
(* URL, whether the record is completed or in error.                       *)
(***************************************************************************)
C34_LastScreenshotKept ==
    (Returned /\ FinalScreenshotFailed(calls) /\ LastUploaded(calls) # None) =>
        ScreenshotOf(result) = LastUploaded(calls)

(***************************************************************************)
(* C34 amended: a record that ends in error has as screenshotUrl the last  *)
(* screenshot URL uploaded during the task, if there is one; a completed   *)
(* record has the URL uploaded for the provider it completed on, and no    *)
(* screenshotUrl when that provider's screenshot step failed or had no     *)
(* screenshot, whatever was uploaded for earlier providers.                *)
(***************************************************************************)
C34_ScreenshotByOutcome ==
    (Returned /\ attempt_order # <<>>) =>
        /\ result["status"] = "error" => ScreenshotOf(result) = LastUploaded(calls)
        /\ result["status"] = "completed" => ScreenshotOf(result) = OwnUpload(calls)

C34_Witness ==
    /\ Returned
    /\ result["status"] = "error"
    /\ FinalScreenshotFailed(calls)
    /\ LastUploaded(calls) # None
    /\ ScreenshotOf(result) = LastUploaded(calls)

\* a completed record without screenshotUrl although an earlier provider's
\* screenshot was uploaded
C34_CompletedWithoutEarlier ==
    /\ Returned
    /\ result["status"] = "completed"
    /\ FinalScreenshotFailed(calls)
    /\ LastUploaded(calls) # None
    /\ ScreenshotOf(result) = None

\* the error entry e is the one logged for the failed call c
LoggedFor(c, e) ==
    CASE c.op = "fetch" -> e.operation = "scrape" /\ e.method = c.method
      [] c.op = "screenshot" ->
            \/ e.operation = "upload" /\ e.method = "r2"
            \/ e.operation = "screenshot_process" /\ e.method = c.method
      [] c.op = "extract" -> e.operation = "extraction" /\ e.method = "gemini"

(***************************************************************************)
(* C35: a completed record holds one error entry for every fetch,          *)
(* screenshot and extraction failure of the task, in the order of the      *)
(* failures, and the same list is in the output record; a completed        *)
(* record is without the errors field exactly when no call of the task     *)
(* failed.                                                                 *)
(***************************************************************************)
C35_ErrorsKeptOnSuccess ==
    (Returned /\ result["status"] = "completed") =>
        LET f == FailedCalls(calls)
        IN  /\ Has(result, "errors") <=> f # <<>>
            /\ Has(output, "errors") <=> f # <<>>
            /\ f # <<>> =>
                 /\ Len(result["errors"]) = Len(f)
                 /\ \A i \in 1..Len(f) : LoggedFor(f[i], result["errors"][i])
                 /\ output["errors"] = result["errors"]

\* completed on the second provider after a failed fetch, a failed upload and
\* a failed extraction
C35_Witness ==
    /\ Returned
    /\ result["status"] = "completed"
    /\ Has(output, "errors")
    /\ Len(output["errors"]) >= 3
    /\ \E i, j, k \in 1..Len(output["errors"]) :
          /\ i < j /\ j < k
          /\ output["errors"][i].operation = "scrape"
          /\ output["errors"][j].operation = "upload"
          /\ output["errors"][k].operation = "extraction"

\* scrape_url has resolved the order of the task
OrderResolved == pc # "start" /\ result # EmptyDict

Enabled == {m \in Methods : retries_config[m] > 0}

\* position of a method in the canonical order firecrawl, brightdata, playwright
Canonical(m) == CHOOSE i \in 1..Len(DefaultOrder) : DefaultOrder[i] = m

\* the provider the rules below the explicit preference put first
RuleFirst ==
    IF UrlForced \/ primary = PRIMARY_BRIGHTDATA THEN METHOD_BRIGHTDATA ELSE METHOD_FIRECRAWL

\* every enabled provider exactly once and no other
EnabledOnce(order) ==
    /\ \A i \in 1..Len(order) : order[i] \in Enabled
    /\ \A m \in Enabled : Cardinality({i \in 1..Len(order) : order[i] = m}) = 1

\* first is at the head, the others follow in canonical order
HeadThenCanonical(order, first) ==
    /\ Len(order) >= 1
    /\ order[1] = first
    /\ \A i, j \in 2..Len(order) : i < j => Canonical(order[i]) < Canonical(order[j])

(***************************************************************************)
(* C36 as claimed: the resolved order holds every enabled provider exactly *)
(* once and nothing else; when the task has no valid preference (none, or  *)
(* an unknown name), the provider forced by the URL rule is first, and     *)
(* without a URL match the primary provider is first, the others following *)
(* in canonical order.                                                     *)
(***************************************************************************)
C36_RuleProviderFirst ==
    OrderResolved =>
        /\ EnabledOnce(attempt_order)
        /\ PreferredMethod = None => HeadThenCanonical(attempt_order, RuleFirst)

(***************************************************************************)
(* C36 amended: the same, the provider named by the URL rule or the        *)
(* primary setting being first when it is enabled; when it is disabled the *)
(* order is the enabled providers in canonical order.                      *)
(***************************************************************************)
C36_EnabledRuleProviderFirst ==
    OrderResolved =>
        /\ EnabledOnce(attempt_order)
        /\ (PreferredMethod = None /\ RuleFirst \in Enabled) =>
              HeadThenCanonical(attempt_order, RuleFirst)
        /\ (PreferredMethod = None /\ RuleFirst \notin Enabled) =>
              \A i, j \in 1..Len(attempt_order) :
                  i < j => Canonical(attempt_order[i]) < Canonical(attempt_order[j])

\* an unknown preference on a Mercado Livre URL with the rule switched on and
\* the primary set to firecrawl: Bright Data first
C36_Witness ==
    /\ OrderResolved
    /\ Has(item, "method")
    /\ PreferredMethod = None
    /\ UrlForced
    /\ primary = PRIMARY_FIRECRAWL
    /\ attempt_order = <<METHOD_BRIGHTDATA, METHOD_PLAYWRIGHT>>

\* the adapter invocations of the task, in the order they were made
Invocations(cs) == SelectSeq(cs, LAMBDA c : c.op = "fetch")
Extractions(cs) == SelectSeq(cs, LAMBDA c : c.op = "extract")

\* position of a method in the resolved order
PlaceOf(m) == CHOOSE i \in 1..Len(attempt_order) : attempt_order[i] = m

\* how many of the first n invocations were of method m
TriesBefore(inv, n, m) == Cardinality({k \in 1..n : inv[k].method = m})

\* the display name of a provider, with the retry mark from the second try on
Marked(name, tries) ==
    IF tries = 0 THEN name ELSE name \o " (retry " \o ToString(tries) \o ")"

\* the adapter invocations of the task that are over and, behind them, the
\* one the task is waiting for
Started ==
    Invocations(calls)
    \o (IF pc = "fetch"
        THEN <<[op |-> "fetch", method |-> attempt_order[idx], ok |-> FALSE]>>
        ELSE <<>>)

\* the log is the invocation trace: entry i names the method of invocation i,
\* marked with the number of earlier invocations of that method, and the
\* methods come in the resolved order, each one's invocations together
LogIsInvocationTrace ==
    LET inv == Started
        log == result["attempts"]
    IN  /\ Len(log) = Len(inv)
        /\ \A i \in 1..Len(inv) :
              /\ inv[i].method \in {attempt_order[k] : k \in 1..Len(attempt_order)}
              /\ log[i] = Marked(MethodName(inv[i].method),
                                 TriesBefore(inv, i - 1, inv[i].method))
        /\ \A i, j \in 1..Len(inv) :
              i < j => PlaceOf(inv[i].method) <= PlaceOf(inv[j].method)

\* a step logs an entry exactly when it invokes an adapter; the invocation is
\* over in a later step, one at a time; an extraction is made only for the
\* method whose fetch was the last one and succeeded, and nothing is fetched
\* in the step of an extraction
OneCallAtATime ==
    (result # EmptyDict /\ result' # EmptyDict) =>
        LET n == Len(Invocations(calls'))  - Len(Invocations(calls))
            x == Len(Extractions(calls')) - Len(Extractions(calls))
            logged == Len(result'["attempts"]) - Len(result["attempts"])
        IN  /\ logged = (IF pc = "attempt" /\ pc' = "fetch" THEN 1 ELSE 0)
            /\ n \in {0, 1}
            /\ x \in {0, 1}
            /\ SubSeq(calls', 1, Len(calls)) = calls
            /\ n = 1 => /\ pc = "fetch"
                        /\ calls'[Len(calls) + 1].op = "fetch"
                        /\ calls'[Len(calls) + 1].method = attempt_order[idx]
            /\ x = 1 => /\ n = 0
                        /\ pc = "extract"
                        /\ calls' = Append(calls, calls'[Len(calls')])
                        /\ calls'[Len(calls')].op = "extract"
                        /\ LastFetch(calls).ok
                        /\ calls'[Len(calls')].method = LastFetch(calls).method

(***************************************************************************)
(* C37: attemptsLog is the sequence of the task's adapter invocations: an  *)
(* entry is appended with each invocation and at no other time, the        *)
(* entries are in invocation order with retries marked, the entries of one *)
(* provider are contiguous and the providers follow the resolved order,    *)
(* and the task makes its fetch and extraction calls one after the other.  *)
(* (A run that raised hands back no record and is left out.)               *)
(***************************************************************************)
C37_LogIsInvocationSequence ==
    /\ []((result # EmptyDict /\ pc # "raised") => LogIsInvocationTrace)
    /\ [][OneCallAtATime]_vars

C37_Witness ==
    /\ Returned
    /\ result["status"] = "completed"
    /\ result["attempts"] = <<"Firecrawl", "Bright Data", "Bright Data (retry 1)">>
    /\ Len(Invocations(calls)) = 3
    /\ Len(Extractions(calls)) = 2

(***************************************************************************)
(* process_batch: normalisation, the semaphore-gated units, gather         *)
(***************************************************************************)
FIRECRAWL_MAX_CONCURRENCY == 5
BRIGHTDATA_MAX_CONCURRENCY == 50

\* get_config()["max_concurrency"]: the explicit override when it parses
get_config(prim, explicit_conc) ==
    IF explicit_conc.kind = "int" THEN explicit_conc.n
    ELSE IF prim = PRIMARY_BRIGHTDATA THEN BRIGHTDATA_MAX_CONCURRENCY
    ELSE FIRECRAWL_MAX_CONCURRENCY

max_concurrency == get_config(primary, env_max_concurrency)

\* lines 2130-2133: `if not url: continue`
HasUrl(it) == extract_url_from_item(it) # None

\* lines 2136-2139: `if not url_id: continue`
HasUrlId(it) == Has(it, "urlId") /\ it["urlId"] # ""

\* lines 2127-2153: the loop that builds processed_items
Preprocessed(data) ==
    LET kept == SelectSeq(data, LAMBDA it : HasUrl(it) /\ HasUrlId(it))
    IN [i \in 1..Len(kept) |-> ProcessedItem(kept[i])]

\* a scrape_with_semaphore coroutine that has not acquired the semaphore yet
NewUnit ==
    [pc |-> "waiting", result |-> EmptyDict, attempt_order |-> <<>>, idx |-> 0,
     retry |-> 0, attempt_result |-> NoAttemptResult, screenshot_url |-> None,
     last_screenshot_url |-> None, last_error |-> None,
     output |-> NoOutput, ncalls |-> 0]

\* mutant: the semaphore lets a unit in when its value is 0
CanAcquire_AtZero(sem) == sem >= 0

\* asyncio.Semaphore.acquire goes through without waiting
CanAcquire(sem) == sem > 0

\* mutant: the semaphore is not released when the unit raised
SemAfterExit_LeakOnRaise(sem, raised) == IF raised THEN sem ELSE sem + 1

\* `async with semaphore` releases on return and on exception alike
SemAfterExit(sem, raised) == sem + 1

\* scrape_url lines 1886-1933 for the task of a unit
UnitStart(u, t) ==
    LET order == ResolveOrder(t.method, t.url, primary, retries_config)
        res == NewScrapeResult(t.url_id, t.url)
        disabled == Put(Put(res, "status", "error"), "errorMessage", DisabledMessage)
    IN IF order = <<>>
       THEN [u EXCEPT !.pc = "returned", !.attempt_order = order, !.result = disabled,
                      !.output = merge_with_initial_data(to_dict(disabled), t.initial_data)]
       ELSE [u EXCEPT !.pc = "attempt", !.attempt_order = order, !.result = res, !.idx = 1]

\* the outer for loop of scrape_url moves on, or falls out to "All failed"
UnitNextMethod(u, t, res, lastErr, lastShot) ==
    IF u.idx < Len(u.attempt_order)
    THEN [u EXCEPT !.idx = @ + 1, !.retry = 0, !.result = res,
                   !.last_error = lastErr, !.last_screenshot_url = lastShot]
    ELSE [u EXCEPT !.pc = "returned",
                   !.result = AllFailed(res, lastErr, lastShot),
                   !.output = merge_with_initial_data(
                                  to_dict(AllFailed(res, lastErr, lastShot)), t.initial_data),
                   !.last_error = lastErr, !.last_screenshot_url = lastShot]

\* scrape_url lines 1942-1949 for the task of a unit: the attempt is logged
\* and the adapter is called
UnitBeginPass(u, t) ==
    LET method_key == u.attempt_order[u.idx]
        max_retries == retries_config[method_key]
    IN IF ~InRange(u.retry, max_retries)
       THEN UnitNextMethod(u, t, u.result, u.last_error, u.last_screenshot_url)
       ELSE [u EXCEPT !.pc = "fetch", !.ncalls = @ + 1,
                      !.result = LogAttempt(u.result, MethodName(method_key), u.retry)]

\* scrape_url lines 1951-1987 for the task of a unit: the adapter call is over
UnitFetch(u, t, resp, comp) ==
    LET method_key == u.attempt_order[u.idx]
        method_name == MethodName(method_key)
        max_retries == retries_config[method_key]
        raised == resp.kind = "raise"
        ar == attempt_async(method_key, resp)
        error_msg == method_name \o " exception: " \o ExceptionText
        failed == raised \/ ~ar.success
        scrape_entry == IF raised THEN ErrorEntry(method_key, "scrape", error_msg)
                        ELSE ErrorEntry(method_key, "scrape", OrElse(ar.error, "Unknown error"))
        scrape_last == IF raised THEN error_msg ELSE ar.error
        errored == [u.result EXCEPT !["errors"] = Append(@, scrape_entry)]
        uncompressed == [u.result EXCEPT !["errors"] =
                            Append(@, ErrorEntry(method_key, "screenshot_process",
                                                 CompressErrorText))]
    IN IF failed
       THEN IF InRange(u.retry + 1, max_retries)
            THEN [u EXCEPT !.pc = "attempt", !.retry = @ + 1, !.last_error = scrape_last,
                           !.result = errored]
            ELSE UnitNextMethod([u EXCEPT !.pc = "attempt"], t, errored, scrape_last,
                                u.last_screenshot_url)
       ELSE IF ~ar.screenshot_bytes
       THEN [u EXCEPT !.pc = "extract", !.attempt_result = ar, !.screenshot_url = None]
       ELSE IF comp = "compress_raise"
       THEN [u EXCEPT !.pc = "extract", !.attempt_result = ar, !.screenshot_url = None,
                      !.result = uncompressed]
       ELSE [u EXCEPT !.pc = "upload", !.attempt_result = ar, !.screenshot_url = None]

\* scrape_url lines 1988-2005 for the task of a unit: the upload is over
UnitUpload(u, t, up) ==
    LET url == UploadedUrl(t.url_id, u.ncalls - 1)
        method_key == u.attempt_order[u.idx]
    IN IF up = "uploaded"
       THEN [u EXCEPT !.pc = "extract", !.screenshot_url = url, !.last_screenshot_url = url]
       ELSE IF up = "upload_error"
       THEN [u EXCEPT !.pc = "extract",
                      !.result = [u.result EXCEPT !["errors"] =
                                     Append(@, ErrorEntry("r2", "upload", UploadErrorText))]]
       ELSE [u EXCEPT !.pc = "extract",
                      !.result = [u.result EXCEPT !["errors"] =
                                     Append(@, ErrorEntry(method_key, "screenshot_process",
                                                          UploadRaiseText))]]

\* scrape_url lines 2008-2047 for the task of a unit: the extraction is over
UnitExtract(u, t, raw) ==
    LET ex == extract_product_data_async(raw)
        found == /\ ex.has_data
                 /\ DOMAIN ex.data # {}
                 /\ (Truthy(ex.data, "currentPrice") \/ Truthy(ex.data, "originalPrice"))
        msg == OrElse(ex.error, "Could not extract price")
        base == [method |-> "gemini", operation |-> "extraction", error |-> msg]
        error_entry == IF u.screenshot_url # None
                       THEN Put(base, "screenshotUrl", u.screenshot_url) ELSE base
        shot_last == IF u.screenshot_url # None THEN u.screenshot_url
                     ELSE u.last_screenshot_url
        left == [u EXCEPT !.pc = "attempt", !.attempt_result = NoAttemptResult,
                          !.screenshot_url = None]
    IN IF found
       THEN [left EXCEPT !.pc = "returned",
                         !.result = Completed(u.result, u.attempt_result, u.screenshot_url,
                                              ex.data),
                         !.output = merge_with_initial_data(
                                        to_dict(Completed(u.result, u.attempt_result,
                                                          u.screenshot_url, ex.data)),
                                        t.initial_data)]
       ELSE UnitNextMethod(left, t,
                           [u.result EXCEPT !["errors"] = Append(@, error_entry)],
                           msg, shot_last)

\* mutant: the results come back in the order the units finished
gather_AsCompleted(us, fin) ==
    [k \in 1..Len(fin) |-> IF us[fin[k]].pc = "raised"
                           THEN [exception |-> RemoteExceptionText]
                           ELSE us[fin[k]].output]

\* asyncio.gather(*tasks, return_exceptions=True): one entry per awaitable, in
\* the order of the awaitables; an exception is an entry like any other
gather(us, fin) ==
    [i \in 1..Len(us) |-> IF us[i].pc = "raised"
                          THEN [exception |-> RemoteExceptionText]
                          ELSE us[i].output]

IsException(r) == Has(r, "exception")

\* mutant: the synthetic record is returned without the override fields
ErrorResultOf_NoMerge(t, r) ==
    [urlId |-> t.url_id, productUrl |-> t.url, status |-> "error",
     errorMessage |-> r["exception"], scrapedAt |-> ScrapedAt]

\* lines 2174-2186: the record that stands in for an exception
ErrorResultOf(t, r) == SyntheticErrorResult(t, r["exception"])

\* lines 2172-2188
ProcessResults(results, tasks) ==
    [i \in 1..Len(results) |-> IF IsException(results[i])
                               THEN ErrorResultOf(tasks[i], results[i])
                               ELSE results[i]]

(***************************************************************************)
(* Inputs of a batch run                                                   *)
(***************************************************************************)
ItemA == [urlId |-> "u1", url |-> PlainUrl, currentPrice |-> 12,
          productName |-> "Colirio Cadastrado"]
ItemB == [urlId |-> "u2", productUrl |-> MercadoLivreUrl]
ItemC == [urlId |-> "u3", url |-> PlainUrl, productUrl |-> MercadoLivreUrl]
ItemNoUrl == [urlId |-> "u4", productName |-> "Sem URL"]
ItemBlankUrl == [urlId |-> "u5", url |-> "", productUrl |-> ""]
ItemNoUrlId == [url |-> PlainUrl]
ItemPaddedUrl == [urlId |-> "u6", url |-> " https://loja.example/p/1 "]
ItemSpaceUrl == [urlId |-> "u7", url |-> " ", productUrl |-> MercadoLivreUrl]
ItemBlankUrlId == [urlId |-> "", productUrl |-> MercadoLivreUrl]

BatchInputs ==
    { <<>>,
      <<ItemNoUrl, ItemBlankUrlId>>,
      <<ItemA, ItemNoUrl, ItemB>>,
      <<ItemNoUrlId, ItemB, ItemBlankUrl, ItemA>>,
      <<ItemPaddedUrl, ItemSpaceUrl>>,
      <<ItemA, ItemB, ItemC>> }

\* MAX_CONCURRENCY unset, or set to a count asyncio.Semaphore accepts
ConcurrencyEnvs == {EnvBlank, EnvInt(0), EnvInt(1), EnvInt(2)}

\* the inputs that leave at most two tasks
SmallBatchInputs == {d \in BatchInputs : Len(Preprocessed(d)) <= 2}

\* firecrawl at one try, the other methods disabled
FirecrawlOnlyEnv ==
    (METHOD_FIRECRAWL :> EnvInt(1)) @@ (METHOD_BRIGHTDATA :> EnvInt(0))
    @@ (METHOD_PLAYWRIGHT :> EnvInt(0))

\* firecrawl at its default count, brightdata disabled, playwright at its default
BatchRetryEnv ==
    (METHOD_FIRECRAWL :> EnvBlank) @@ (METHOD_BRIGHTDATA :> EnvInt(0))
    @@ (METHOD_PLAYWRIGHT :> EnvBlank)

\* every answer the adapters, compress_image, the upload and the extraction
\* can give
AnyAnswer ==
    [providers |-> ProviderResponses, compress |-> CompressOutcomes,
     upload |-> UploadOutcomes, gemini |-> GeminiResponses]

\* pages that come too small or large enough, without a screenshot, and an
\* extraction that finds a price or none
PagesOnly ==
    [providers |-> {r \in ProviderResponses : r.kind = "page" /\ ~r.shot},
     compress |-> CompressOutcomes, upload |-> UploadOutcomes,
     gemini |-> {g \in GeminiResponses : g.kind = "json" /\ Has(g.data, "productTitle")}]

\* as PagesOnly, every page large enough
GoodPagesOnly ==
    [PagesOnly EXCEPT !.providers = {r \in @ : r.html_len >= MIN_HTML_SIZE}]

\* no single scrape_url run is followed
TaskIdle ==
    /\ item = EmptyDict
    /\ task = EmptyDict
    /\ pc = "idle"
    /\ result = EmptyDict
    /\ attempt_order = <<>>
    /\ idx = 0
    /\ retry = 0
    /\ attempt_result = NoAttemptResult
    /\ screenshot_url = None
    /\ last_screenshot_url = None
    /\ last_error = None
    /\ output = NoOutput
    /\ calls = <<>>

\* lines 2119-2166: the semaphore, the normalisation and the creation of the units
Preprocess ==
    /\ b_pc = "start"
    /\ semaphore' = max_concurrency
    /\ processed_items' = Preprocessed(urls_data)
    /\ units' = [i \in 1..Len(Preprocessed(urls_data)) |-> NewUnit]
    /\ b_pc' = "gather"
    /\ UNCHANGED <<config_vars, env_max_concurrency, urls_data, services, finished, processed_results>>
    /\ UNCHANGED outside_batch

\* line 2122: a unit enters `async with semaphore`
Acquire(i) ==
    /\ b_pc = "gather"
    /\ units[i].pc = "waiting"
    /\ CanAcquire(semaphore)
    /\ semaphore' = semaphore - 1
    /\ units' = [units EXCEPT ![i].pc = "start"]
    /\ UNCHANGED <<config_vars, env_max_concurrency, urls_data, services, b_pc, processed_items,
                   finished, processed_results>>
    /\ UNCHANGED outside_batch

\* the unit leaves `async with semaphore` when its step ended the remote call
AfterStep(i, u) ==
    /\ units' = [units EXCEPT ![i] = u]
    /\ IF u.pc \in {"returned", "raised"}
       THEN /\ semaphore' = SemAfterExit(semaphore, u.pc = "raised")
            /\ finished' = Append(finished, i)
       ELSE UNCHANGED <<semaphore, finished>>
    /\ UNCHANGED <<config_vars, env_max_concurrency, urls_data, services, b_pc, processed_items,
                   processed_results>>
    /\ UNCHANGED outside_batch

\* line 2123: the remote scrape_url run of the unit begins
UnitRun(i) ==
    /\ b_pc = "gather"
    /\ units[i].pc = "start"
    /\ AfterStep(i, UnitStart(units[i], processed_items[i]))

\* the remote scrape_url run of the unit logs an attempt and calls the adapter
UnitBegins(i) ==
    /\ b_pc = "gather"
    /\ units[i].pc = "attempt"
    /\ AfterStep(i, UnitBeginPass(units[i], processed_items[i]))

\* the adapter call of the unit's run is over
UnitFetched(i, resp, comp) ==
    /\ b_pc = "gather"
    /\ units[i].pc = "fetch"
    /\ resp \in ResponsesOf(units[i].attempt_order[units[i].idx])
    /\ AfterStep(i, UnitFetch(units[i], processed_items[i], resp, comp))

\* the screenshot upload of the unit's run is over
UnitUploaded(i, up) ==
    /\ b_pc = "gather"
    /\ units[i].pc = "upload"
    /\ AfterStep(i, UnitUpload(units[i], processed_items[i], up))

\* the extraction of the unit's run is over
UnitExtracted(i, raw) ==
    /\ b_pc = "gather"
    /\ units[i].pc = "extract"
    /\ AfterStep(i, UnitExtract(units[i], processed_items[i], raw))

\* the remote call raises instead of returning a record: of the remote run
\* nothing but the exception comes back
UnitRaises(i) ==
    /\ b_pc = "gather"
    /\ units[i].pc \in {"start", "attempt", "fetch", "upload", "extract"}
    /\ AfterStep(i, [NewUnit EXCEPT !.pc = "raised", !.ncalls = units[i].ncalls])

(***************************************************************************)
(* Vocabulary of the batch properties                                      *)
(***************************************************************************)
BatchDone == b_pc = "done"
UnitsOf == 1..Len(units)
Running == {i \in UnitsOf : units[i].pc \in {"start", "attempt", "fetch", "upload", "extract"}}

\* neither accepted key holds a URL
LacksUrl(it) == /\ (~Has(it, "url") \/ Strip(it["url"]) = "")
                /\ (~Has(it, "productUrl") \/ Strip(it["productUrl"]) = "")
LacksUrlId(it) == ~Has(it, "urlId") \/ it["urlId"] = ""
\* positions of the input items that carry a URL and a task id
Complete == {k \in 1..Len(urls_data) : ~LacksUrl(urls_data[k]) /\ ~LacksUrlId(urls_data[k])}

\* sum of the retry counts; a disabled method counts 0
SumBudgets ==
    retries_config[METHOD_FIRECRAWL] + retries_config[METHOD_BRIGHTDATA]
    + retries_config[METHOD_PLAYWRIGHT]

(***************************************************************************)
(* C12: the list process_batch returns has one record per normalised task, *)
(* and the record at position i carries the task id and the URL of the     *)
(* task at position i, whatever the order in which the units finished.     *)
(***************************************************************************)
C12_OrderPreserved ==
    BatchDone =>
        /\ Len(processed_results) = Len(processed_items)
        /\ \A i \in 1..Len(processed_items) :
              /\ processed_results[i]["urlId"] = processed_items[i].url_id
              /\ processed_results[i]["productUrl"] = processed_items[i].url

C12_Witness ==
    /\ BatchDone
    /\ finished = <<3, 1, 2>>
    /\ units[3].pc = "returned"
    /\ processed_results[3]["urlId"] = "u3"

(***************************************************************************)
(* C13: when the remote call of a unit raises, the batch still returns: at *)
(* that unit's position stands a record with status "error", the exception *)
(* text as errorMessage and the task's override fields, and every other    *)
(* unit contributes the record its own run returned.                       *)
(***************************************************************************)
C13_ExceptionIsolated ==
    BatchDone =>
        \A i \in UnitsOf :
            IF units[i].pc = "raised"
            THEN /\ processed_results[i]["status"] = "error"
                 /\ processed_results[i]["errorMessage"] = RemoteExceptionText
                 /\ \A k \in DOMAIN processed_items[i].initial_data :
                       /\ Has(processed_results[i], k)
                       /\ processed_results[i][k] = processed_items[i].initial_data[k]
            ELSE /\ units[i].pc = "returned"
                 /\ processed_results[i] = units[i].output

C13_Witness ==
    /\ BatchDone
    /\ Len(units) = 3
    /\ finished[1] = 1
    /\ units[1].pc = "raised"
    /\ processed_results[1]["currentPrice"] = 12
    /\ processed_results[2]["status"] = "completed"
    /\ processed_results[3]["status"] = "error"

(***************************************************************************)
(* C14: in every state of a batch run the number of units inside           *)
(* `async with semaphore` (their scrape_url run started and not ended) is  *)
(* at most max_concurrency, and the semaphore holds the unused remainder.  *)
(***************************************************************************)
C14_ConcurrencyLimit ==
    b_pc \in {"gather", "tinybird", "done"} =>
        /\ Cardinality(Running) <= max_concurrency
        /\ semaphore = max_concurrency - Cardinality(Running)

C14_Witness ==
    /\ max_concurrency = 1
    /\ Cardinality(Running) = 1
    /\ \E i \in UnitsOf : units[i].pc = "waiting"
    /\ finished # <<>>

(***************************************************************************)
(* C15 as stated: an input item without a URL under "url" and under        *)
(* "productUrl", or without a task id, gets no unit and no record; the     *)
(* remaining items, which carry both, get one unit and one record each.    *)
(***************************************************************************)
C15_InvalidDropped ==
    b_pc \in {"gather", "tinybird", "done"} =>
        /\ Len(processed_items) = Cardinality(Complete)
        /\ Len(units) = Cardinality(Complete)
        /\ \A i \in 1..Len(processed_items) :
              /\ processed_items[i].url \notin {None, ""}
              /\ \E k \in Complete : processed_items[i].url_id = urls_data[k]["urlId"]
        /\ BatchDone =>
              /\ Len(processed_results) = Cardinality(Complete)
              /\ \A k \in Complete :
                    \E i \in 1..Len(processed_results) :
                        processed_results[i]["urlId"] = urls_data[k]["urlId"]
              /\ \A i \in 1..Len(processed_results) :
                    \E k \in Complete : processed_results[i]["urlId"] = urls_data[k]["urlId"]

(***************************************************************************)
(* C16 as stated: every batch run terminates with one record per           *)
(* normalised task, and no scrape_url run makes more provider calls than   *)
(* the sum of the retry counts of the enabled methods.                     *)
(***************************************************************************)
C16_AlwaysTerminates ==
    /\ [](\A i \in UnitsOf : units[i].ncalls <= SumBudgets)
    /\ [](BatchDone => Len(processed_results) = Len(processed_items))
    /\ <>BatchDone

(***************************************************************************)
(* C16 amended: with a concurrency limit of at least 1, every batch run    *)
(* terminates with one record per normalised task; and for every limit no  *)
(* scrape_url run makes more provider calls than the sum of the retry      *)
(* counts of the enabled methods.                                          *)
(***************************************************************************)
C16_TerminatesWithPositiveLimit ==
    /\ [](\A i \in UnitsOf : units[i].ncalls <= SumBudgets)
    /\ [](BatchDone => Len(processed_results) = Len(processed_items))
    /\ (max_concurrency >= 1) ~> BatchDone

C16_Witness ==
    /\ BatchDone
    /\ max_concurrency = 1
    /\ Len(processed_results) = 2
    /\ \E i \in UnitsOf : units[i].ncalls = SumBudgets
    /\ \E i \in UnitsOf : units[i].pc = "raised"

(***************************************************************************)
(* TinybirdBatcher                                                         *)
(*                                                                         *)
(* The records are numbered in the order of the add calls.  Time is        *)
(* counted in ticks; only two distances matter to the code and both are    *)
(* counted up to the flush timeout: the time since the last add and the    *)
(* time left of the timer's sleep.                                         *)
(***************************************************************************)
TINYBIRD_BATCH_SIZE == 10
TINYBIRD_MAX_RETRIES == 3
\* delays are in milliseconds
TINYBIRD_BASE_DELAY == 1000
TINYBIRD_MAX_DELAY == 10000

\* self.flush_timeout (TINYBIRD_FLUSH_TIMEOUT seconds by default), in ticks
FlushTicks == 2

Min(a, b) == IF a <= b THEN a ELSE b

\* what the ingestion endpoint answers to one POST
Http(code) == [kind |-> "http", status |-> code]
TimeoutAnswer == [kind |-> "timeout", status |-> 0]
TransportError == [kind |-> "exception", status |-> 0]
\* a 429 answer with a Retry-After header of `secs` seconds
RateLimited(secs) == [kind |-> "http", status |-> 429, retry_after |-> secs]
\* line 1048: response.headers.get("Retry-After") is there
HasRetryAfter(resp) == "retry_after" \in DOMAIN resp

\* an answer with a success code whose body is not the JSON object of row
\* counts
Unreadable(code) == [kind |-> "http", status |-> code, body |-> "unreadable"]
\* what self._client.post raises when self._client is None or was closed
NoClientError == [kind |-> "exception", status |-> 0, client |-> "unusable"]

\* line 1039: response.status_code in (200, 202)
IsSuccess(resp) == resp.kind = "http" /\ resp.status \in {200, 202}

\* lines 1040-1042: response.json() or result.get(...) raises
JsonRaises(resp) == "body" \in DOMAIN resp

\* the endpoint answers what is scripted, and 200 once the script is used up
NextAnswer(sk) == IF sk = <<>> THEN Http(200) ELSE Head(sk)
RestOf(sk) == IF sk = <<>> THEN <<>> ELSE Tail(sk)

NoDelivery == EmptyDict
Idle == [pc |-> "idle", rec |-> 0]

\* mutant: the buffer has to exceed the batch size
BatchFull_Exceeds(len, batch_size) == len > batch_size

\* line 975: len(self._buffer) >= self.batch_size
BatchFull(len, batch_size) == len >= batch_size

\* mutant: the timer flushes whenever it wakes
TimerDue_Always(buf, elapsed, timeout) == TRUE

\* line 900: self._buffer and (time.time() - self._last_add_time) >= self.flush_timeout
TimerDue(buf, elapsed, timeout) == buf # <<>> /\ elapsed >= timeout

\* mutant: the timer task ends after its first sleep
TimerAfterCheck_OneShot(flushing) == IF flushing THEN "sending" ELSE "off"

\* lines 897-902: the timer sends, or is back in `while True` at its sleep
TimerAfterCheck(flushing) == IF flushing THEN "sending" ELSE "sleeping"

\* mutant: the loop makes one attempt more
InAttemptRange_OneMore(attempt, max_retries) == attempt >= 1 /\ attempt <= max_retries + 1

\* line 1027: for attempt in range(1, self.max_retries + 1)
InAttemptRange(attempt, max_retries) == attempt >= 1 /\ attempt <= max_retries

\* line 1067: if attempt < self.max_retries
SleepsBeforeRetry(attempt, max_retries) == attempt < max_retries

\* random.uniform(0, delay * 0.3) draws one of the quarters 0/4 .. 4/4 of its range
JitterQuarters == 4

\* mutant: the exponential part is not capped
calculate_delay_NoCap(base_delay, max_delay, attempt, k) ==
    LET delay == base_delay * (2 ^ (attempt - 1))
        jitter == (delay * 3 * k) \div (10 * JitterQuarters)
    IN delay + jitter

\* lines 1078-1082: _calculate_delay, the draw of random.uniform being quarter k
calculate_delay(base_delay, max_delay, attempt, k) ==
    LET delay == Min(base_delay * (2 ^ (attempt - 1)), max_delay)
        jitter == (delay * 3 * k) \div (10 * JitterQuarters)
    IN delay + jitter

\* lines 1067-1071: the delay slept before the next attempt; line 1068 assigns
\* `delay` anew, whatever the branch of the answer had put there
RetryDelay(resp, attempt, k) ==
    calculate_delay(TINYBIRD_BASE_DELAY, TINYBIRD_MAX_DELAY, attempt, k)

\* _flush_internal gets as far as _send_batch_with_retry
Sends(buf) == buf # <<>> /\ bt_cfg.token

FlushRecord(trigger, buf, outcome, answers) ==
    [trigger |-> trigger, batch |-> buf, outcome |-> outcome, answers |-> answers]

\* how many times r is in the list
Occurrences(seq, r) == Cardinality({i \in 1..Len(seq) : seq[i] = r})

\* lines 985-999: _flush_internal up to its first await, called with the lock
\* held by `owner`, buf being the buffer and m the metrics at that point
FlushInternal(owner, trigger, buf, m) ==
    /\ metrics' = m
    /\ IF buf = <<>>
       THEN /\ buffer' = buf
            /\ lock' = "free"
            /\ delivery' = NoDelivery
            /\ UNCHANGED <<last_flush, flushes, flushed>>
       ELSE /\ buffer' = <<>>
            /\ flushes' = [flushes EXCEPT ![trigger] = @ + 1]
            /\ flushed' = [r \in DOMAIN flushed |-> flushed[r] + Occurrences(buf, r)]
            /\ IF ~bt_cfg.token
               THEN /\ lock' = "free"
                    /\ delivery' = NoDelivery
                    /\ last_flush' = FlushRecord(trigger, buf, "discarded", <<>>)
               ELSE /\ lock' = owner
                    /\ delivery' = [batch |-> buf, attempt |-> 1, owner |-> owner,
                                    trigger |-> trigger, phase |-> "sending", answers |-> <<>>,
                                    wait |-> 0]
                    /\ last_flush' = FlushRecord(trigger, buf, "sending", <<>>)

\* mutant: a failed batch is not counted
FailedAfter_Uncounted(success, failed) == failed

\* lines 1002-1003: if not success: self._failed_batches += 1
FailedAfter(success, failed) == IF success THEN failed ELSE failed + 1

\* self._flush_task is one _flush_timer task after another, named in the
\* order _start_flush_timer creates them; timer_tasks[i] is "running",
\* "done", or, cancel() called and the CancelledError not yet raised in the
\* task, "cancelling" or "cancelling_woken": the latter when the task waited
\* for the lock and the lock had already been handed to it
TimerNames == <<"timer1", "timer2">>
TimerName(i) == TimerNames[i]
IsTimer(who) == \E i \in 1..Len(TimerNames) : TimerNames[i] = who
\* the task self._flush_task refers to
CurrentTimer == TimerName(Len(timer_tasks))
RunningTimers(tasks) == {i \in 1..Len(tasks) : tasks[i] = "running"}
NotDone(tasks) == {i \in 1..Len(tasks) : tasks[i] # "done"}
\* `who` is a timer task that was cancelled and has not ended yet
IsCancelling(who) ==
    \E i \in 1..Len(timer_tasks) :
        TimerName(i) = who /\ timer_tasks[i] \in {"cancelling", "cancelling_woken"}
\* `who` is a timer task whose pending wait for the lock was cancelled
WaitCancelled(who) ==
    \E i \in 1..Len(timer_tasks) : TimerName(i) = who /\ timer_tasks[i] = "cancelling"
\* self._flush_task runs: it was neither cancelled nor has it ended
TimerRuns == timer_tasks # <<>> /\ timer_tasks[Len(timer_tasks)] = "running"

\* lines 999-1003 and the return to whoever called _flush_internal; __aexit__
\* goes on to close the client (lines 880-881)
Finish(success, answers) ==
    /\ metrics' = [metrics EXCEPT !.total_batches = @ + 1,
                                  !.failed_batches = FailedAfter(success, @)]
    /\ last_flush' = FlushRecord(delivery.trigger, delivery.batch,
                                 IF success THEN "delivered" ELSE "failed", answers)
    /\ delivery' = NoDelivery
    /\ lock' = "free"
    /\ IF IsTimer(delivery.owner)
       THEN /\ timer' = "sleeping"
            /\ sleep_left' = FlushTicks
            /\ UNCHANGED <<cpc, bt_state, client>>
       ELSE /\ cpc' = [cpc EXCEPT ![delivery.owner] = Idle]
            /\ bt_state' = IF delivery.trigger = "teardown" THEN "closed" ELSE bt_state
            /\ client' = IF delivery.trigger = "teardown" THEN "closed" ELSE client
            /\ UNCHANGED <<timer, sleep_left>>

\* asyncio.Lock wakes its waiters in the order they came: the one in front
\* gets the lock once it is released
Resumes(who) == lock = "free" /\ waiters # <<>> /\ Head(waiters) = who

\* lines 869-870 and 889-890: cancel() is called on the task that is not done.
\* cancel() only asks for the cancellation, the task ends when the event loop
\* runs it next; a wait for the lock that is still pending is cancelled at
\* once, one the lock has answered stays in the lock's queue as it is
CancelFlushTask(tasks) ==
    [i \in 1..Len(tasks) |->
        IF i = Len(tasks) /\ tasks[i] = "running"
        THEN IF Resumes(TimerName(i)) THEN "cancelling_woken" ELSE "cancelling"
        ELSE tasks[i]]

\* mutant: a new timer task is started next to the one that runs
StartFlushTimer_NoCancel(tasks) == Append(tasks, "running")

\* lines 888-892: _start_flush_timer cancels the task that is not done, then
\* creates one
StartFlushTimer(tasks) == Append(CancelFlushTask(tasks), "running")

\* the waiters of the lock without `who`
Without(queue, who) ==
    LET Others(w) == w # who IN SelectSeq(queue, Others)

\* The event loop runs a cancelled timer task: CancelledError is raised where
\* the task waits.  In asyncio.sleep the task just ends; waiting for the lock
\* it leaves the lock's queue; inside _send_batch_with_retry the error is not
\* caught by `except Exception`, leaves _flush_internal before the counters
\* and releases the lock, the batch taken from the buffer being gone.
\* _flush_timer catches the error and returns (lines 903-904).  Tasks
\* cancelled earlier are run earlier.
TimerUnwind(i) ==
    /\ i \in 1..Len(timer_tasks)
    /\ IsCancelling(TimerName(i))
    /\ \A k \in 1..(i - 1) : ~IsCancelling(TimerName(k))
    /\ timer_tasks' = [timer_tasks EXCEPT ![i] = "done"]
    /\ IF delivery # NoDelivery /\ delivery.owner = TimerName(i)
       THEN /\ lock' = "free"
            /\ delivery' = NoDelivery
            /\ last_flush' = FlushRecord("timer", delivery.batch, "cancelled", delivery.answers)
       ELSE UNCHANGED <<lock, delivery, last_flush>>
    /\ waiters' = Without(waiters, TimerName(i))
    /\ IF i = Len(timer_tasks)
       THEN /\ timer' = "cancelled"
            /\ sleep_left' = 0
       ELSE UNCHANGED <<timer, sleep_left>>
    /\ UNCHANGED <<bt_cfg, bt_state, client, scopes, buffer, n_added, cpc, since_add, metrics,
                   flushes, flushed, sink>>
    /\ UNCHANGED outside_batcher

\* __aenter__: a client is created and the timer task (re)started; the user
\* enters the batcher bt_cfg.enters times, before or after a teardown
Enter ==
    /\ Len(timer_tasks) < bt_cfg.enters
    /\ \E c \in DOMAIN cpc : cpc[c].pc = "idle"
    /\ bt_state' = "active"
    /\ client' = "open"
    /\ scopes' = scopes + 1
    /\ timer' = "sleeping"
    /\ sleep_left' = FlushTicks
    /\ timer_tasks' = StartFlushTimer(timer_tasks)
    /\ UNCHANGED <<bt_cfg, buffer, n_added, lock, waiters, cpc, since_add, delivery, last_flush,
                   metrics, flushes, flushed, sink>>
    /\ UNCHANGED outside_batcher

\* lines 967-977: the body of add under the lock
AddLocked(c, rec) ==
    LET buf == Append(buffer, rec)
        m == [metrics EXCEPT !.total_records = @ + 1]
    IN /\ since_add' = 0
       /\ IF BatchFull(Len(buf), bt_cfg.batch_size)
          THEN /\ FlushInternal(c, "add", buf, m)
               /\ cpc' = [cpc EXCEPT ![c] = IF Sends(buf) THEN [pc |-> "sending", rec |-> 0]
                                            ELSE Idle]
          ELSE /\ buffer' = buf
               /\ metrics' = m
               /\ cpc' = [cpc EXCEPT ![c] = Idle]
               /\ UNCHANGED <<lock, delivery, last_flush, flushes, flushed>>

\* mutant: the lock is not waited for
Acquires_Unlocked(holder, queue) == TRUE

\* `async with self._lock` (lines 899, 966, 981), asyncio.Lock.acquire: the
\* lock is taken at once when nobody holds it and nobody waits for it, waiters
\* whose wait was cancelled not counting
Acquires(holder, queue) ==
    /\ holder = "free"
    /\ \A i \in 1..Len(queue) : WaitCancelled(queue[i])

\* add: the record is prepared, then the lock is taken or waited for; add does
\* not look at whether the batcher was entered or left
AddCall(c) ==
    /\ cpc[c].pc = "idle"
    /\ n_added < bt_cfg.to_add
    /\ n_added' = n_added + 1
    /\ IF Acquires(lock, waiters)
       THEN /\ AddLocked(c, n_added + 1)
            /\ UNCHANGED waiters
       ELSE /\ cpc' = [cpc EXCEPT ![c] = [pc |-> "add_wait", rec |-> n_added + 1]]
            /\ waiters' = Append(waiters, c)
            /\ UNCHANGED <<buffer, lock, since_add, delivery, last_flush, metrics, flushes, flushed>>
    /\ UNCHANGED <<bt_cfg, timer_tasks, bt_state, client, scopes, timer, sleep_left, sink>>
    /\ UNCHANGED outside_batcher

\* an add that waited for the lock gets it
AddResume(c) ==
    /\ cpc[c].pc = "add_wait"
    /\ Resumes(c)
    /\ waiters' = Tail(waiters)
    /\ AddLocked(c, cpc[c].rec)
    /\ UNCHANGED <<bt_cfg, timer_tasks, bt_state, client, scopes, n_added, timer, sleep_left, sink>>
    /\ UNCHANGED outside_batcher

\* lines 981-983: the body of flush under the lock
FlushLocked(c, trigger) ==
    /\ FlushInternal(c, trigger, buffer, metrics)
    /\ cpc' = [cpc EXCEPT ![c] = IF Sends(buffer) THEN [pc |-> "sending", rec |-> 0] ELSE Idle]

\* flush called by the user of the batcher, entered or not
FlushCall(c) ==
    /\ cpc[c].pc = "idle"
    /\ IF Acquires(lock, waiters)
       THEN /\ FlushLocked(c, "explicit")
            /\ UNCHANGED waiters
       ELSE /\ cpc' = [cpc EXCEPT ![c] = [pc |-> "flush_wait", rec |-> 0]]
            /\ waiters' = Append(waiters, c)
            /\ UNCHANGED <<buffer, lock, delivery, last_flush, metrics, flushes, flushed>>
    /\ UNCHANGED <<bt_cfg, timer_tasks, bt_state, client, scopes, n_added, timer, sleep_left,
                   since_add, sink>>
    /\ UNCHANGED outside_batcher

FlushResume(c) ==
    /\ cpc[c].pc = "flush_wait"
    /\ Resumes(c)
    /\ waiters' = Tail(waiters)
    /\ FlushLocked(c, "explicit")
    /\ UNCHANGED <<bt_cfg, timer_tasks, bt_state, client, scopes, n_added, timer, sleep_left,
                   since_add, sink>>
    /\ UNCHANGED outside_batcher

\* __aexit__ lines 866-874: the `async with` block entered last is left,
\* cancel() is called on the timer task that is not done and the task is
\* awaited
TeardownCancel(c) ==
    /\ scopes > 0
    /\ cpc[c].pc = "idle"
    /\ scopes' = scopes - 1
    /\ bt_state' = "closing"
    /\ cpc' = [cpc EXCEPT ![c] = [pc |-> "exit_wait", rec |-> 0]]
    /\ timer_tasks' = CancelFlushTask(timer_tasks)
    /\ UNCHANGED <<bt_cfg, client, buffer, n_added, lock, waiters, timer, sleep_left, since_add,
                   delivery, last_flush, metrics, flushes, flushed, sink>>
    /\ UNCHANGED outside_batcher

\* lines 877-881 with the lock in hand: the final flush, and the client closed
\* when nothing is sent
TeardownLocked(c) ==
    /\ FlushLocked(c, "teardown")
    /\ bt_state' = IF Sends(buffer) THEN bt_state ELSE "closed"
    /\ client' = IF Sends(buffer) THEN client ELSE "closed"

\* __aexit__ lines 872-886: the awaited timer task has ended; flush() takes
\* the lock or waits for it
TeardownFlush(c) ==
    /\ cpc[c].pc = "exit_wait"
    /\ timer_tasks[Len(timer_tasks)] = "done"
    /\ IF Acquires(lock, waiters)
       THEN /\ TeardownLocked(c)
            /\ UNCHANGED waiters
       ELSE /\ cpc' = [cpc EXCEPT ![c] = [pc |-> "exit_lock", rec |-> 0]]
            /\ waiters' = Append(waiters, c)
            /\ UNCHANGED <<bt_state, client, buffer, lock, delivery, last_flush, metrics,
                           flushes, flushed>>
    /\ UNCHANGED <<bt_cfg, timer_tasks, scopes, n_added, timer, sleep_left, since_add, sink>>
    /\ UNCHANGED outside_batcher

\* the flush() of __aexit__ that waited for the lock gets it
TeardownResume(c) ==
    /\ cpc[c].pc = "exit_lock"
    /\ Resumes(c)
    /\ waiters' = Tail(waiters)
    /\ TeardownLocked(c)
    /\ UNCHANGED <<bt_cfg, timer_tasks, scopes, n_added, timer, sleep_left, since_add, sink>>
    /\ UNCHANGED outside_batcher

\* lines 899-902: the timer, holding the lock, looks at the buffer
TimerCheck ==
    LET due == TimerDue(buffer, since_add, FlushTicks)
    IN /\ IF due
          THEN FlushInternal(CurrentTimer, "timer", buffer, metrics)
          ELSE UNCHANGED <<buffer, lock, delivery, last_flush, flushes, flushed, metrics>>
       /\ timer' = TimerAfterCheck(due /\ Sends(buffer))
       /\ sleep_left' = FlushTicks

\* line 898: the timer's sleep is over
TimerWake ==
    /\ TimerRuns
    /\ timer = "sleeping"
    /\ sleep_left = 0
    /\ IF Acquires(lock, waiters)
       THEN /\ TimerCheck
            /\ UNCHANGED waiters
       ELSE /\ timer' = "lock_wait"
            /\ waiters' = Append(waiters, CurrentTimer)
            /\ UNCHANGED <<buffer, lock, delivery, last_flush, flushes, flushed, metrics, sleep_left>>
    /\ UNCHANGED <<bt_cfg, timer_tasks, bt_state, client, scopes, n_added, cpc, since_add, sink>>
    /\ UNCHANGED outside_batcher

TimerResume ==
    /\ TimerRuns
    /\ timer = "lock_wait"
    /\ Resumes(CurrentTimer)
    /\ waiters' = Tail(waiters)
    /\ TimerCheck
    /\ UNCHANGED <<bt_cfg, timer_tasks, bt_state, client, scopes, n_added, cpc, since_add, sink>>
    /\ UNCHANGED outside_batcher

\* line 1029: what `await self._client.post(...)` comes back with; without a
\* client (None before __aenter__) or on a closed one the call raises and the
\* endpoint sees nothing
PostAnswer == IF client = "open" THEN NextAnswer(sink) ELSE NoClientError

\* what happened in the try block: a response was looked at, or a timeout or
\* another exception was raised, by the POST or by response.json()
Outcome(resp) ==
    IF resp.kind = "http"
    THEN IF IsSuccess(resp) /\ JsonRaises(resp) THEN "exception" ELSE "response"
    ELSE resp.kind

\* mutant: only timeouts are caught
HandledInLoop_TimeoutOnly(resp) == Outcome(resp) \in {"response", "timeout"}

\* lines 1028-1064: a response is looked at in the try block, and
\* `except httpx.TimeoutException` and `except Exception` take what is raised
HandledInLoop(resp) == Outcome(resp) \in {"response", "timeout", "exception"}

\* lines 1039-1045: the status is a success code and the row counts are read
\* from the body: return True
Delivered(resp) == IsSuccess(resp) /\ ~JsonRaises(resp)

\* an exception that left the try block would leave _send_batch_with_retry and
\* _flush_internal before the counters, release the lock and leave add, flush
\* or __aexit__, or end the timer task
Propagate(answers) ==
    /\ delivery' = NoDelivery
    /\ lock' = "free"
    /\ last_flush' = FlushRecord(delivery.trigger, delivery.batch, "raised", answers)
    /\ IF IsTimer(delivery.owner)
       THEN /\ timer' = "died"
            /\ timer_tasks' = [timer_tasks EXCEPT ![Len(timer_tasks)] = "done"]
            /\ UNCHANGED cpc
       ELSE /\ cpc' = [cpc EXCEPT ![delivery.owner] = [pc |-> "raised", rec |-> 0]]
            /\ UNCHANGED <<timer, timer_tasks>>
    /\ UNCHANGED <<bt_state, client, sleep_left, metrics>>

\* the loop of _send_batch_with_retry goes on to attempt number `attempt`
LoopTo(attempt, answers) ==
    IF InAttemptRange(attempt, bt_cfg.max_retries)
    THEN /\ delivery' = [delivery EXCEPT !.attempt = attempt, !.phase = "sending",
                                         !.answers = answers, !.wait = 0]
         /\ UNCHANGED <<lock, cpc, bt_state, client, timer, sleep_left, last_flush, metrics>>
    ELSE Finish(FALSE, answers)

\* lines 1028-1071: one POST and what its answer leads to
Post ==
    /\ delivery # NoDelivery
    /\ delivery.phase = "sending"
    /\ ~IsCancelling(delivery.owner)
    /\ LET resp == PostAnswer
           answers == Append(delivery.answers, resp)
       IN /\ sink' = IF client = "open" THEN RestOf(sink) ELSE sink
          /\ IF ~HandledInLoop(resp)
             THEN Propagate(answers)
             ELSE /\ UNCHANGED timer_tasks
                  /\ IF Delivered(resp)
                     THEN Finish(TRUE, answers)
                     ELSE IF SleepsBeforeRetry(delivery.attempt, bt_cfg.max_retries)
                     THEN /\ \E k \in 0..JitterQuarters :
                                delivery' = [delivery EXCEPT
                                                !.phase = "backoff", !.answers = answers,
                                                !.wait = RetryDelay(resp, delivery.attempt, k)]
                          /\ metrics' = [metrics EXCEPT !.total_retries = @ + 1]
                          /\ UNCHANGED <<lock, cpc, bt_state, client, timer, sleep_left,
                                         last_flush>>
                     ELSE LoopTo(delivery.attempt + 1, answers)
    /\ UNCHANGED <<bt_cfg, scopes, waiters, buffer, n_added, since_add, flushes, flushed>>
    /\ UNCHANGED outside_batcher

\* line 1071: the backoff sleep is over
BackoffEnd ==
    /\ delivery # NoDelivery
    /\ delivery.phase = "backoff"
    /\ ~IsCancelling(delivery.owner)
    /\ LoopTo(delivery.attempt + 1, delivery.answers)
    /\ UNCHANGED <<bt_cfg, timer_tasks, scopes, waiters, buffer, n_added, since_add, flushes,
                   flushed, sink>>
    /\ UNCHANGED outside_batcher

\* a tick of the clock; only the timer task reads the clock (lines 898 and
\* 900), and the ticks are counted while one runs
Tick ==
    /\ TimerRuns
    /\ since_add' = Min(since_add + 1, FlushTicks)
    /\ sleep_left' = IF timer = "sleeping" /\ sleep_left > 0
                     THEN sleep_left - 1 ELSE sleep_left
    /\ (since_add' # since_add \/ sleep_left' # sleep_left)
    /\ UNCHANGED <<bt_cfg, timer_tasks, bt_state, client, scopes, buffer, n_added, lock, waiters,
                   cpc, timer, delivery, last_flush, metrics, flushes, flushed, sink>>
    /\ UNCHANGED outside_batcher

(***************************************************************************)
(* Inputs of a batcher run                                                 *)
(***************************************************************************)
\* the batcher as process_batch builds it, fed one record more than a batch
DefaultBatcher ==
    [batch_size |-> TINYBIRD_BATCH_SIZE, max_retries |-> TINYBIRD_MAX_RETRIES,
     token |-> TRUE, to_add |-> TINYBIRD_BATCH_SIZE + 1, callers |-> {"c1"}, enters |-> 1]

\* batchers with a batch size of two, with and without TINYBIRD_TOKEN
SmallBatchers ==
    {[batch_size |-> 2, max_retries |-> TINYBIRD_MAX_RETRIES, token |-> t,
      to_add |-> 3, callers |-> {"c1"}, enters |-> 2] : t \in BOOLEAN}

\* endpoint scripts: always up; down for three posts; slow, throttled with a
\* Retry-After of 7 seconds, then up; failing, throttled without Retry-After;
\* accepting with a body that is not JSON, then with the row counts
SinkScripts ==
    { <<>>,
      <<Http(500), Http(500), Http(500), Http(200)>>,
      <<TimeoutAnswer, RateLimited(7), Http(202)>>,
      <<TransportError, Http(503), Http(429), TimeoutAnswer>>,
      <<Unreadable(202), Http(200)>> }

InitBatcherWith(cfgs, scripts) ==
    /\ env_retries = DefaultEnv
    /\ primary = PRIMARY_FIRECRAWL
    /\ ml_force = FALSE
    /\ TaskIdle
    /\ BatchIdle
    /\ FnIdle
    /\ JobIdle
    /\ bt_cfg \in cfgs
    /\ sink \in scripts
    /\ bt_state = "new"
    /\ client = "none"
    /\ scopes = 0
    /\ buffer = <<>>
    /\ n_added = 0
    /\ lock = "free"
    /\ waiters = <<>>
    /\ cpc = [c \in bt_cfg.callers |-> Idle]
    /\ timer = "off"
    /\ timer_tasks = <<>>
    /\ sleep_left = 0
    /\ since_add = FlushTicks
    /\ delivery = NoDelivery
    /\ last_flush = EmptyDict
    /\ metrics = [total_records |-> 0, total_batches |-> 0, failed_batches |-> 0,
                  total_retries |-> 0]
    /\ flushes = [add |-> 0, timer |-> 0, explicit |-> 0, teardown |-> 0]
    /\ flushed = [r \in 1..bt_cfg.to_add |-> 0]

InitBatcher ==
    \/ InitBatcherWith({DefaultBatcher}, {<<>>, <<Http(500), Http(500), Http(500), Http(200)>>})
    \/ InitBatcherWith(SmallBatchers, SinkScripts)

NextBatcher ==
    \/ Enter
    \/ \E c \in DOMAIN cpc : AddCall(c)
    \/ \E c \in DOMAIN cpc : AddResume(c)
    \/ \E c \in DOMAIN cpc : FlushCall(c)
    \/ \E c \in DOMAIN cpc : FlushResume(c)
    \/ \E c \in DOMAIN cpc : TeardownCancel(c)
    \/ \E c \in DOMAIN cpc : TeardownFlush(c)
    \/ \E i \in 1..Len(timer_tasks) : TimerUnwind(i)
    \/ TimerWake
    \/ TimerResume
    \/ Post
    \/ BackoffEnd
    \/ Tick

SpecBatcher == InitBatcher /\ [][NextBatcher]_vars

\* the batchers of SmallBatchers against an endpoint that is up, or down for
\* the three posts of one batch
InitFairBatcher ==
    InitBatcherWith(SmallBatchers, {<<>>, <<Http(500), Http(500), Http(500), Http(200)>>})

\* The event loop runs the coroutines that are ready, time passes and every
\* POST is answered; whether the user of the batcher enters it, calls add or
\* flush, or leaves the `async with` block is up to the user.
FairSpecBatcher ==
    /\ InitFairBatcher
    /\ [][NextBatcher]_vars
    /\ WF_vars(\E c \in DOMAIN cpc : AddResume(c))
    /\ WF_vars(\E c \in DOMAIN cpc : FlushResume(c))
    /\ WF_vars(\E c \in DOMAIN cpc : TeardownFlush(c))
    /\ WF_vars(\E i \in 1..Len(timer_tasks) : TimerUnwind(i))
    /\ WF_vars(TimerWake)
    /\ WF_vars(TimerResume)
    /\ WF_vars(Post)
    /\ WF_vars(BackoffEnd)
    /\ WF_vars(Tick)

(***************************************************************************)
(* process_batch: gather, and the results sent through a TinybirdBatcher   *)
(***************************************************************************)
\* the ingestion endpoint up, or down for the three posts of a batch
BatchSinkScripts == {<<>>, <<Http(500), Http(500), Http(500)>>}

\* The batches of at most two tasks are run with one Firecrawl try per task
\* against every answer of the services, and with the retries of
\* BatchRetryEnv against pages and an endpoint that may be down; every batch
\* is run with one Firecrawl try per task against pages large enough.
InitBatch ==
    /\ \/ /\ urls_data \in SmallBatchInputs
          /\ env_retries = FirecrawlOnlyEnv
          /\ services = AnyAnswer
          /\ sink = <<>>
       \/ /\ urls_data \in SmallBatchInputs
          /\ env_retries = BatchRetryEnv
          /\ services = PagesOnly
          /\ sink \in BatchSinkScripts
       \/ /\ urls_data \in BatchInputs
          /\ env_retries = FirecrawlOnlyEnv
          /\ services = GoodPagesOnly
          /\ sink = <<>>
    /\ primary = PRIMARY_FIRECRAWL
    /\ ml_force = FALSE
    /\ TaskIdle
    /\ env_max_concurrency \in ConcurrencyEnvs
    /\ b_pc = "start"
    /\ processed_items = <<>>
    /\ semaphore = 0
    /\ units = <<>>
    /\ finished = <<>>
    /\ processed_results = <<>>
    /\ NoBatcher
    /\ FnIdle
    /\ JobIdle

\* line 2216: TinybirdBatcher() with the default arguments, to which
\* process_batch will add its n records
BatchBatcher(n) ==
    [batch_size |-> TINYBIRD_BATCH_SIZE, max_retries |-> TINYBIRD_MAX_RETRIES,
     token |-> TRUE, to_add |-> n, callers |-> {"process_batch"}, enters |-> 1]

\* lines 2169-2216: gather hands back once every unit is done, the exceptions
\* are replaced by records and the batcher is constructed
Gather ==
    /\ b_pc = "gather"
    /\ \A i \in 1..Len(units) : units[i].pc \in {"returned", "raised"}
    /\ processed_results' = ProcessResults(gather(units, finished), processed_items)
    /\ b_pc' = "tinybird"
    /\ bt_cfg' = BatchBatcher(Len(units))
    /\ bt_state' = "new"
    /\ cpc' = [c \in {"process_batch"} |-> Idle]
    /\ timer_tasks' = <<>>
    /\ since_add' = FlushTicks
    /\ metrics' = [total_records |-> 0, total_batches |-> 0, failed_batches |-> 0,
                   total_retries |-> 0]
    /\ flushes' = [add |-> 0, timer |-> 0, explicit |-> 0, teardown |-> 0]
    /\ flushed' = [r \in 1..Len(units) |-> 0]
    /\ UNCHANGED <<client, scopes, buffer, n_added, lock, waiters, timer, sleep_left, delivery,
                   last_flush, sink>>
    /\ UNCHANGED <<config_vars, env_max_concurrency, urls_data, services, processed_items, semaphore,
                   units, finished>>
    /\ UNCHANGED <<task_vars, fn_vars, job_vars>>

\* lines 2216-2219: `async with TinybirdBatcher() as batcher`, one add per
\* record, the exit once every record was added, and the posts of the final
\* flush.  With fewer records than TINYBIRD_BATCH_SIZE no add flushes, and
\* taking a free asyncio.Lock does not suspend, so process_batch does not
\* return to the event loop between __aenter__ and the cancellation of the
\* timer task in __aexit__: the timer task is cancelled before its first
\* step, and no add finds the lock taken.  The cancelled task ends when the
\* event loop runs it, and __aexit__, which awaits it, goes on after that.
SendToTinybird ==
    /\ b_pc = "tinybird"
    /\ \/ bt_state = "new" /\ Enter
       \/ bt_state = "active" /\ AddCall("process_batch")
       \/ bt_state = "active" /\ n_added = bt_cfg.to_add /\ TeardownCancel("process_batch")
       \/ \E i \in 1..Len(timer_tasks) : TimerUnwind(i)
       \/ TeardownFlush("process_batch")
       \/ Post
       \/ BackoffEnd

\* line 2232: return processed_results
Return ==
    /\ b_pc = "tinybird"
    /\ bt_state = "closed"
    /\ b_pc' = "done"
    /\ UNCHANGED <<config_vars, env_max_concurrency, urls_data, services, processed_items, semaphore,
                   units, finished, processed_results>>
    /\ UNCHANGED outside_batch

NextBatch ==
    \/ Preprocess
    \/ \E i \in 1..Len(units) : Acquire(i)
    \/ \E i \in 1..Len(units) : UnitRun(i)
    \/ \E i \in 1..Len(units) : UnitBegins(i)
    \/ \E i \in 1..Len(units), resp \in services.providers, comp \in services.compress :
          UnitFetched(i, resp, comp)
    \/ \E i \in 1..Len(units), up \in services.upload : UnitUploaded(i, up)
    \/ \E i \in 1..Len(units), raw \in services.gemini : UnitExtracted(i, raw)
    \/ \E i \in 1..Len(units) : UnitRaises(i)
    \/ Gather
    \/ SendToTinybird
    \/ Return

SpecBatch == InitBatch /\ [][NextBatch]_vars

\* the batches of at most two tasks
InitFairBatch == InitBatch /\ urls_data \in SmallBatchInputs

\* The event loop runs whatever is ready, a remote call that was started
\* returns or raises, every POST is answered and every sleep ends.
FairSpecBatch ==
    /\ InitFairBatch
    /\ [][NextBatch]_vars
    /\ WF_vars(NextBatch)

(***************************************************************************)
(* Vocabulary of the batcher properties                                    *)
(***************************************************************************)
FlushStarted(trigger) == flushes'[trigger] = flushes[trigger] + 1
AnyFlushStarted == \E t \in DOMAIN flushes : FlushStarted(t)
\* the locked part of an add runs in this step
AddRuns == metrics'.total_records = metrics.total_records + 1
\* the record the add of this step appends
AddedRecord ==
    IF n_added' # n_added THEN n_added'
    ELSE cpc[CHOOSE c \in DOMAIN cpc : cpc[c].pc = "add_wait" /\ cpc'[c].pc # "add_wait"].rec
OnlyAddFlushes == flushes.timer = 0 /\ flushes.explicit = 0 /\ flushes.teardown = 0
AllFailures(answers) == \A i \in 1..Len(answers) : ~IsSuccess(answers[i])
Records == 1..(TINYBIRD_BATCH_SIZE + 1)
InBuffer(r) == \E i \in 1..Len(buffer) : buffer[i] = r

\* the add of this step flushes buf as one batch, and nothing else flushes
AddFlushes(buf) ==
    /\ FlushStarted("add")
    /\ \A t \in DOMAIN flushes \ {"add"} : flushes'[t] = flushes[t]
    /\ buffer' = <<>>
    /\ last_flush'.trigger = "add"
    /\ last_flush'.batch = buf
\* the add of this step appends its record and no flush starts
AddBuffers(buf) ==
    /\ flushes' = flushes
    /\ buffer' = buf
    /\ delivery' = delivery
\* buf is handed to one delivery
Sent(buf) == delivery' # NoDelivery /\ delivery'.batch = buf
\* buf is dropped without a delivery
Discarded(buf) == delivery' = delivery /\ last_flush'.outcome = "discarded"

C17_StepAsClaimed ==
    AddRuns =>
        LET buf == Append(buffer, AddedRecord)
        IN IF Len(buf) = bt_cfg.batch_size
           THEN AddFlushes(buf) /\ Sent(buf)
           ELSE AddBuffers(buf)

C17_AddStep ==
    AddRuns =>
        LET buf == Append(buffer, AddedRecord)
        IN IF Len(buf) = bt_cfg.batch_size
           THEN /\ AddFlushes(buf)
                /\ IF bt_cfg.token THEN Sent(buf) ELSE Discarded(buf)
           ELSE AddBuffers(buf)

C17_State ==
    /\ lock = "free" => Len(buffer) < bt_cfg.batch_size
    /\ (bt_state # "none" /\ bt_cfg.batch_size = 10 /\ OnlyAddFlushes) =>
          /\ metrics.total_records <= 9 =>
                (flushes.add = 0 /\ Len(buffer) = metrics.total_records)
          /\ metrics.total_records >= 10 =>
                (flushes.add = 1 /\ Len(last_flush.batch) = 10
                 /\ Len(buffer) = metrics.total_records - 10)

(***************************************************************************)
(* C17 as claimed: an add starts a flush exactly when the buffer, with the *)
(* record appended, holds batch_size records, and that flush sends those   *)
(* batch_size records as one batch.  With batch_size 10 and no other       *)
(* flush, nine adds start no flush and the tenth starts exactly one, of 10 *)
(* records.  While the lock is free the buffer holds fewer than batch_size *)
(* records.                                                                *)
(***************************************************************************)
C17_FullBufferSent == [][C17_StepAsClaimed]_vars /\ []C17_State

(***************************************************************************)
(* C17 amended: the same, the flush of the full buffer sending its batch   *)
(* when TINYBIRD_TOKEN is configured and dropping it unsent, as one batch  *)
(* of batch_size records, when it is not.                                  *)
(***************************************************************************)
C17_FlushOnFull == [][C17_AddStep]_vars /\ []C17_State

\* the tenth add of a batcher without TINYBIRD_TOKEN would be the same flush
\* with the outcome "discarded"
C17_Witness ==
    /\ bt_state = "active"
    /\ bt_cfg.batch_size = 10
    /\ metrics.total_records = 10
    /\ OnlyAddFlushes
    /\ flushes.add = 1
    /\ last_flush.outcome = "delivered"
    /\ last_flush.batch = <<1, 2, 3, 4, 5, 6, 7, 8, 9, 10>>

(***************************************************************************)
(* C18: a flush starts only in a step of add that brings the buffer to     *)
(* batch_size, in a step of the timer whose sleep is over while the buffer *)
(* is not empty and the flush timeout has passed since the last add, or in *)
(* a step of an explicit flush or of the teardown; the buffer loses        *)
(* records only to a flush, and no delivery is made of an empty batch.     *)
(***************************************************************************)
C18_Step ==
    /\ FlushStarted("add") => (AddRuns /\ Len(buffer) + 1 = bt_cfg.batch_size)
    /\ FlushStarted("timer") =>
          /\ timer \in {"sleeping", "lock_wait"}
          /\ sleep_left = 0
          /\ buffer # <<>>
          /\ since_add >= FlushTicks
    /\ FlushStarted("explicit") =>
          (\E c \in DOMAIN cpc : cpc[c].pc \in {"idle", "flush_wait"} /\ buffer # <<>>)
    /\ FlushStarted("teardown") => (bt_state = "closing" /\ buffer # <<>>)
    /\ (Len(buffer') < Len(buffer) \/ (AddRuns /\ Len(buffer') # Len(buffer) + 1)) =>
          AnyFlushStarted
    /\ (delivery = NoDelivery /\ delivery' # NoDelivery) => AnyFlushStarted

C18_State ==
    /\ delivery # NoDelivery => delivery.batch # <<>>
    /\ last_flush # EmptyDict => last_flush.batch # <<>>

C18_FlushTriggers == [][C18_Step]_vars /\ []C18_State

C18_Witness ==
    /\ bt_state = "closed"
    /\ flushes.add = 1
    /\ flushes.timer = 1
    /\ flushes.teardown = 0
    /\ metrics.total_batches = 2

(***************************************************************************)
(* C19: every record in the buffer of an active batcher leaves the buffer  *)
(* in the end, also when batch_size is never reached and the user neither  *)
(* adds again nor leaves the `async with` block: the timer flushes it.     *)
(***************************************************************************)
C19_EveryRecordFlushed ==
    \A r \in Records : (InBuffer(r) /\ bt_state = "active") ~> ~InBuffer(r)

C19_Witness ==
    /\ bt_state = "active"
    /\ n_added = 3
    /\ buffer = <<>>
    /\ last_flush.trigger = "timer"
    /\ last_flush.batch = <<3>>
    /\ last_flush.outcome \in {"delivered", "failed", "discarded"}

(***************************************************************************)
(* C20 as claimed: a batch is posted at most max_retries times, a 200 or   *)
(* 202 answer is the last post of its batch, and a batch whose first       *)
(* max_retries posts all failed (none was answered 200 or 202)             *)
(* is reported failed without another post: with max_retries 3 and the     *)
(* answers 500, 500, 500 the batch is failed after three posts, whatever   *)
(* the endpoint would have answered to a fourth.                           *)
(***************************************************************************)
C20_AttemptsBounded ==
    /\ delivery # NoDelivery =>
          /\ delivery.attempt \in 1..bt_cfg.max_retries
          /\ Len(delivery.answers) =
                IF delivery.phase = "sending" THEN delivery.attempt - 1 ELSE delivery.attempt
          /\ AllFailures(delivery.answers)
    /\ (last_flush # EmptyDict /\ last_flush.outcome = "delivered") =>
          LET a == last_flush.answers
          IN /\ Len(a) \in 1..bt_cfg.max_retries
             /\ IsSuccess(a[Len(a)])
             /\ AllFailures(SubSeq(a, 1, Len(a) - 1))
    /\ (last_flush # EmptyDict /\ last_flush.outcome = "failed") =>
          /\ Len(last_flush.answers) = bt_cfg.max_retries
          /\ AllFailures(last_flush.answers)
    /\ (last_flush # EmptyDict /\ bt_cfg.max_retries = 3 /\ Len(last_flush.answers) >= 3
        /\ SubSeq(last_flush.answers, 1, 3) = <<Http(500), Http(500), Http(500)>>) =>
          /\ last_flush.outcome = "failed"
          /\ Len(last_flush.answers) = 3

\* a batch was posted again after the endpoint had answered 202
C20_PostedAgainAfterSuccess ==
    /\ delivery # NoDelivery
    /\ delivery.phase = "sending"
    /\ delivery.attempt = 2
    /\ delivery.answers = <<Unreadable(202)>>

\* the records of a sequence
Range(seq) == {seq[i] : i \in 1..Len(seq)}
\* the records the batcher holds: buffered, waiting to be appended, or in the
\* batch being delivered
Held ==
    Range(buffer) \cup {cpc[c].rec : c \in {d \in DOMAIN cpc : cpc[d].pc = "add_wait"}}
                  \cup (IF delivery = NoDelivery THEN {} ELSE Range(delivery.batch))
\* this step ends a delivery whose attempts all failed
DeliveryFails ==
    delivery # NoDelivery /\ delivery' = NoDelivery /\ last_flush'.outcome = "failed"

(***************************************************************************)
(* C21: the step that ends a delivery after the last failed attempt leaves *)
(* the buffer as it is, counts one batch and one failed batch, and the     *)
(* records of the failed batch are held no more; no step brings a record   *)
(* back that the batcher no longer holds, so no later flush sends it.      *)
(***************************************************************************)
C21_Step ==
    /\ DeliveryFails =>
          /\ buffer' = buffer
          /\ metrics'.failed_batches = metrics.failed_batches + 1
          /\ metrics'.total_batches = metrics.total_batches + 1
          /\ last_flush'.batch = delivery.batch
          /\ Range(delivery.batch) \cap Held' = {}
    /\ Held' \subseteq Held \cup (IF n_added' # n_added THEN {n_added'} ELSE {})
    /\ n_added' >= n_added
    /\ \A r \in Held : r <= n_added

C21_FailedBatchDropped == [][C21_Step]_vars

C21_Witness ==
    /\ bt_state = "closed"
    /\ metrics.failed_batches = 1
    /\ metrics.total_batches = 2
    /\ last_flush.outcome = "delivered"
    /\ last_flush.batch = <<3>>
    /\ last_flush.answers = <<Http(200)>>

\* the delivery sleeps before its next attempt, after answer `resp`
WaitsAfter(resp) ==
    /\ delivery # NoDelivery
    /\ delivery.phase = "backoff"
    /\ delivery.answers[Len(delivery.answers)] = resp
BackoffDelays(attempt) ==
    {calculate_delay(TINYBIRD_BASE_DELAY, TINYBIRD_MAX_DELAY, attempt, k) : k \in 0..JitterQuarters}

(***************************************************************************)
(* C22: while the batcher waits after a 429 answer, the wait is the        *)
(* Retry-After of that answer when it has one, and the computed backoff of *)
(* the attempt when it has none.                                           *)
(***************************************************************************)
C22_RetryAfterHonoured ==
    \A resp \in {RateLimited(7), Http(429)} :
        WaitsAfter(resp) =>
            IF HasRetryAfter(resp)
            THEN delivery.wait = resp.retry_after * 1000
            ELSE delivery.wait \in BackoffDelays(delivery.attempt)

(***************************************************************************)
(* TinybirdBatcher._calculate_delay, call by call                          *)
(***************************************************************************)
\* the largest attempt number handed to _calculate_delay
MaxAttempt == 6

\* base_delay and max_delay in milliseconds: the defaults, and a base delay
\* above the maximum
DelayConfigs ==
    { [base_delay |-> TINYBIRD_BASE_DELAY, max_delay |-> TINYBIRD_MAX_DELAY],
      [base_delay |-> 2000, max_delay |-> 5000],
      [base_delay |-> 4000, max_delay |-> 3000] }

InitDelay ==
    /\ env_retries = DefaultEnv
    /\ primary = PRIMARY_FIRECRAWL
    /\ ml_force = FALSE
    /\ TaskIdle
    /\ BatchIdle
    /\ BatcherIdle
    /\ JobIdle
    /\ \E c \in DelayConfigs, n \in 1..MaxAttempt, k \in 0..JitterQuarters :
          fn_args = [base_delay |-> c.base_delay, max_delay |-> c.max_delay,
                     attempt |-> n, k |-> k]
    /\ fn_ret = <<>>

CalculateDelay ==
    /\ fn_ret = <<>>
    /\ fn_ret' = <<calculate_delay(fn_args.base_delay, fn_args.max_delay, fn_args.attempt,
                                   fn_args.k)>>
    /\ UNCHANGED fn_args
    /\ UNCHANGED outside_fn

NextDelay == CalculateDelay

SpecDelay == InitDelay /\ [][NextDelay]_vars

\* base * 2^(n-1) with the cap of max_delay on it
Uncapped(a) == a.base_delay * (2 ^ (a.attempt - 1))
Capped(a) == Min(Uncapped(a), a.max_delay)

(***************************************************************************)
(* C23: for every attempt n >= 1 the delay lies between d and 1.3 d, where *)
(* d is base * 2^(n-1) capped at max_delay: it is between base * 2^(n-1)   *)
(* and 1.3 times that while base * 2^(n-1) is within max_delay, and it     *)
(* never exceeds 1.3 * max_delay.                                          *)
(***************************************************************************)
C23_BackoffBounds ==
    (fn_ret # <<>> /\ "attempt" \in DOMAIN fn_args) =>
        LET d == fn_ret[1]
        IN /\ Capped(fn_args) <= d
           /\ 10 * d <= 13 * Capped(fn_args)
           /\ 10 * d <= 13 * fn_args.max_delay
           /\ Uncapped(fn_args) <= fn_args.max_delay =>
                 (Uncapped(fn_args) <= d /\ 10 * d <= 13 * Uncapped(fn_args))

C23_Witness ==
    /\ fn_ret = <<13000>>
    /\ fn_args = [base_delay |-> TINYBIRD_BASE_DELAY, max_delay |-> TINYBIRD_MAX_DELAY,
                  attempt |-> 5, k |-> JitterQuarters]

\* every _flush_timer task created so far has ended
TimersDone == NotDone(timer_tasks) = {}
\* this step is the flush() of __aexit__ getting the lock
TeardownFlushes ==
    \E c \in DOMAIN cpc :
        cpc[c].pc \in {"exit_wait", "exit_lock"} /\ cpc'[c].pc \in {"sending", "idle"}
\* this step ends __aexit__
TeardownEnds == bt_state = "closing" /\ bt_state' = "closed"

(***************************************************************************)
(* C24: __aexit__ asks for the cancellation of the timer task first, and   *)
(* its final flush starts only when every timer task has ended; that flush *)
(* takes every record the buffer holds; __aexit__ ends with the buffer     *)
(* empty and no delivery in progress, and the client is closed in that     *)
(* step and in no other; a timer starts a flush only as the running task   *)
(* of an active batcher, so none after the teardown; and however the       *)
(* batcher is entered again, at most one timer task is running, the task   *)
(* replaced being cancelled and doing nothing more than end.               *)
(***************************************************************************)
C24_Step ==
    /\ FlushStarted("teardown") => (TimersDone /\ bt_state = "closing")
    /\ TeardownFlushes =>
          /\ TimersDone
          /\ buffer' = <<>>
          /\ buffer # <<>> =>
                (last_flush'.trigger = "teardown" /\ last_flush'.batch = buffer)
    /\ FlushStarted("timer") => (bt_state = "active" /\ TimerRuns)
    /\ TeardownEnds =>
          (TimersDone /\ buffer' = <<>> /\ delivery' = NoDelivery /\ lock' = "free"
           /\ client' = "closed")
    /\ (client = "open" /\ client' # "open") => TeardownEnds
    /\ \A i \in 1..Len(timer_tasks) :
          IsCancelling(TimerName(i)) =>
              (timer_tasks'[i] = timer_tasks[i]
               \/ (timer_tasks'[i] = "done" /\ flushes' = flushes /\ buffer' = buffer))

C24_State ==
    /\ Cardinality(RunningTimers(timer_tasks)) <= 1
    /\ bt_state \in {"closing", "closed"} => RunningTimers(timer_tasks) = {}
    /\ bt_state = "closed" => TimersDone
    /\ bt_state = "closing" =>
          /\ (\A c \in DOMAIN cpc : cpc[c].pc # "exit_wait") => TimersDone
          /\ delivery # NoDelivery =>
                (delivery.trigger = "teardown" \/ IsCancelling(delivery.owner))

C24_TeardownOrder == [][C24_Step]_vars /\ []C24_State

\* the batcher was entered twice and left twice, each teardown flushing what
\* was buffered
C24_Witness ==
    /\ bt_state = "closed"
    /\ client = "closed"
    /\ timer_tasks = <<"done", "done">>
    /\ scopes = 0
    /\ flushes.teardown = 2
    /\ flushes.timer = 0
    /\ last_flush.trigger = "teardown"
    /\ last_flush.outcome = "delivered"
    /\ last_flush.batch = <<2>>

\* the batcher was entered again while its timer task was delivering: the task
\* replaced is cancelled and still holds the lock, the new one runs
C24_ReplacedTimerPending ==
    /\ bt_state = "active"
    /\ timer_tasks = <<"cancelling", "running">>
    /\ lock = "timer1"
    /\ delivery # NoDelivery
    /\ delivery.owner = "timer1"

\* this step settles what becomes of a batch that had left the buffer
BatchSettled(outcomes) ==
    /\ last_flush' # last_flush
    /\ last_flush'.outcome \in outcomes

(***************************************************************************)
(* C25: a step in which a batch that left the buffer ends up undelivered   *)
(* (all attempts failed, discarded for want of a token, or abandoned by a  *)
(* cancelled timer) adds one to the failed-batch counter.                  *)
(***************************************************************************)
C25_Step ==
    BatchSettled({"failed", "discarded", "cancelled"}) =>
        metrics'.failed_batches = metrics.failed_batches + 1

C25_LossCounted == [][C25_Step]_vars

\* the calls of the user that are in progress or have raised
Raised == {c \in DOMAIN cpc : cpc[c].pc = "raised"}
\* this step adds the outcome of a POST to those of the delivery in progress
Answered ==
    /\ delivery # NoDelivery
    /\ delivery.phase = "sending"
    /\ \/ delivery' # NoDelivery /\ Len(delivery'.answers) = Len(delivery.answers) + 1
       \/ delivery' = NoDelivery /\ Len(last_flush'.answers) = Len(delivery.answers) + 1
\* this step hands a failure to the delivery in progress
FailureAnswered == Answered /\ ~Delivered(PostAnswer)

(***************************************************************************)
(* C26: no call of add, flush or teardown ends by raising and the timer    *)
(* task is not ended by an exception, whatever the endpoint answers; a     *)
(* failure answer leaves the delivery going or ends it as failed, and the  *)
(* call that was delivering then returns with the failed-batch counter     *)
(* moved.                                                                  *)
(***************************************************************************)
C26_Step ==
    /\ FailureAnswered =>
          \/ delivery' # NoDelivery /\ delivery'.batch = delivery.batch
          \/ DeliveryFails
    /\ DeliveryFails =>
          /\ metrics'.failed_batches = metrics.failed_batches + 1
          /\ ~IsTimer(delivery.owner) => cpc'[delivery.owner] = Idle
          /\ IsTimer(delivery.owner) => timer' = "sleeping"

C26_State ==
    /\ Raised = {}
    /\ timer # "died"
    /\ last_flush # EmptyDict => last_flush.outcome # "raised"

C26_FailuresContained == [][C26_Step]_vars /\ []C26_State

C26_Witness ==
    /\ bt_state = "active"
    /\ cpc["c1"] = Idle
    /\ last_flush # EmptyDict
    /\ last_flush.trigger = "add"
    /\ last_flush.outcome = "failed"
    /\ last_flush.answers = <<TransportError, Http(503), Http(429)>>
    /\ metrics.failed_batches = 1
    /\ sink = <<TimeoutAnswer>>

(***************************************************************************)
(* TinybirdJobManager.complete_job: the final status, call by call         *)
(***************************************************************************)
\* the largest job.totalUrls
MaxUrls == 12

\* mutant: any failure makes the job partial
FinalStatus_PartialFirst(failed_urls, total_urls) ==
    IF failed_urls > 0 THEN "partial"
    ELSE IF failed_urls = total_urls THEN "failed"
    ELSE "completed"

\* lines 2517-2523: the final status
FinalStatus(failed_urls, total_urls) ==
    IF failed_urls = total_urls THEN "failed"
    ELSE IF failed_urls > 0 THEN "partial"
    ELSE "completed"

\* job.totalUrls from 0 on, and failed_urls as process_batch_with_job passes it
\* (lines 2639-2640): the number of result records whose status is not
\* completed, of at most len(urls_data) = job.totalUrls records
InitCompleteJob ==
    /\ env_retries = DefaultEnv
    /\ primary = PRIMARY_FIRECRAWL
    /\ ml_force = FALSE
    /\ TaskIdle
    /\ BatchIdle
    /\ BatcherIdle
    /\ JobIdle
    /\ \E t \in 0..MaxUrls, f \in 0..MaxUrls :
          /\ f <= t
          /\ fn_args = [total_urls |-> t, failed_urls |-> f]
    /\ fn_ret = <<>>

CompleteJobStatus ==
    /\ fn_ret = <<>>
    /\ fn_ret' = <<FinalStatus(fn_args.failed_urls, fn_args.total_urls)>>
    /\ UNCHANGED fn_args
    /\ UNCHANGED outside_fn

NextCompleteJob == CompleteJobStatus

SpecCompleteJob == InitCompleteJob /\ [][NextCompleteJob]_vars

\* the status the three rules of the job contract give
StatusByRule(failed, total, status) ==
    /\ status = "failed" <=> failed = total
    /\ status = "partial" <=> (0 < failed /\ failed < total)
    /\ status = "completed" <=> ~(failed = total) /\ ~(0 < failed /\ failed < total)

(***************************************************************************)
(* C27: for every total >= 0 and every failed count complete_job is called *)
(* with, the status is failed iff failed = total, partial iff              *)
(* 0 < failed < total, and completed otherwise.                            *)
(***************************************************************************)
C27_StatusForEveryCount ==
    (fn_ret # <<>> /\ "failed_urls" \in DOMAIN fn_args) =>
        StatusByRule(fn_args.failed_urls, fn_args.total_urls, fn_ret[1])

C27_Witness ==
    /\ fn_args = [total_urls |-> 3, failed_urls |-> 2]
    /\ fn_ret = <<"partial">>

(***************************************************************************)
(* check_price_alert: the price alert of one result record                 *)
(*                                                                         *)
(* A price is written with three decimals and named by its count of        *)
(* thousandths (0.005 is 5, 19.999 is 19999); breachAmount is in           *)
(* hundredths and breachPercentage in hundredths of a percent, the two     *)
(* decimals round(x, 2) keeps.                                             *)
(***************************************************************************)
\* thousandths per currency unit
MILLS == 1000

(***************************************************************************)
(* The prices reach check_price_alert as Python floats (binary64), and it  *)
(* is the float that is subtracted, divided and rounded: 0.005 is stored   *)
(* a little above 5/1000 and round(0.005, 2) is 0.01, 0.015 a little below *)
(* and round(0.015, 2) is 0.01.  A float is kept as its significand, in    *)
(* binary digits with the most significant first, and the exponent of its  *)
(* last digit: the value is sig * 2^exp, and 0.0 has no digits.            *)
(***************************************************************************)
\* digits of the significand of a binary64
SignificandBits == 53

\* a natural number below 2^30 in binary digits, and back
BinDigits(n) ==
    LET k == CHOOSE j \in 0..30 : 2^j > n /\ (j = 0 \/ 2^(j - 1) <= n)
    IN  [i \in 1..k |-> (n \div 2^(k - i)) % 2]

RECURSIVE BinValue(_)
BinValue(b) ==
    IF b = <<>> THEN 0
    ELSE IF Len(b) = 1 THEN b[1]
    ELSE LET m == Len(b) \div 2
         IN  BinValue(SubSeq(b, 1, m)) * 2^(Len(b) - m)
                 + BinValue(SubSeq(b, m + 1, Len(b)))

\* without its leading zeros
BinTrim(b) ==
    IF \A i \in 1..Len(b) : b[i] = 0 THEN <<>>
    ELSE LET k == CHOOSE i \in 1..Len(b) :
                      b[i] = 1 /\ \A j \in 1..(i - 1) : b[j] = 0
         IN  SubSeq(b, k, Len(b))

BinZeros(k) == [i \in 1..k |-> 0]
\* b * 2^k
BinShift(b, k) == IF b = <<>> THEN <<>> ELSE b \o BinZeros(k)
\* b in n digits
BinPad(b, n) == BinZeros(n - Len(b)) \o b

\* a < b, neither with leading zeros
BinLess(a, b) ==
    IF Len(a) # Len(b) THEN Len(a) < Len(b)
    ELSE \E i \in 1..Len(a) : a[i] < b[i] /\ \A k \in 1..(i - 1) : a[k] = b[k]

\* a + b + carry digit by digit for a and b of one length, the carry out in
\* front; the lower half is added first and its carry goes into the upper
RECURSIVE BinSumCarry(_, _, _)
BinSumCarry(a, b, carry) ==
    IF a = <<>> THEN <<carry>>
    ELSE IF Len(a) = 1 THEN <<(a[1] + b[1] + carry) \div 2, (a[1] + b[1] + carry) % 2>>
    ELSE LET m == Len(a) \div 2
             low == BinSumCarry(SubSeq(a, m + 1, Len(a)), SubSeq(b, m + 1, Len(b)), carry)
         IN  IF low[1] = 1
             THEN BinSumCarry(SubSeq(a, 1, m), SubSeq(b, 1, m), 1) \o Tail(low)
             ELSE BinSumCarry(SubSeq(a, 1, m), SubSeq(b, 1, m), 0) \o Tail(low)

\* a + b
BinSum(a, b) ==
    LET n == Max(Len(a), Len(b))
    IN  BinTrim(BinSumCarry(BinPad(a, n), BinPad(b, n), 0))

\* a - b - borrow digit by digit for a and b of one length, the borrow out in
\* front
RECURSIVE BinDiffBorrow(_, _, _)
BinDiffBorrow(a, b, borrow) ==
    IF a = <<>> THEN <<borrow>>
    ELSE IF Len(a) = 1
    THEN <<IF a[1] - b[1] - borrow < 0 THEN 1 ELSE 0, (a[1] - b[1] - borrow + 2) % 2>>
    ELSE LET m == Len(a) \div 2
             low == BinDiffBorrow(SubSeq(a, m + 1, Len(a)), SubSeq(b, m + 1, Len(b)), borrow)
         IN  IF low[1] = 1
             THEN BinDiffBorrow(SubSeq(a, 1, m), SubSeq(b, 1, m), 1) \o Tail(low)
             ELSE BinDiffBorrow(SubSeq(a, 1, m), SubSeq(b, 1, m), 0) \o Tail(low)

\* a - b for a >= b
BinDiff(a, b) == BinTrim(Tail(BinDiffBorrow(a, BinPad(b, Len(a)), 0)))

\* long division by d: the digits n are brought down one by one onto the
\* remainder rem, the first half of n before the second
RECURSIVE BinDivideFrom(_, _, _)
BinDivideFrom(rem, n, d) ==
    IF n = <<>> THEN [quot |-> <<>>, rem |-> rem]
    ELSE IF Len(n) = 1
    THEN LET r == BinTrim(Append(rem, n[1]))
         IN  IF BinLess(r, d) THEN [quot |-> <<0>>, rem |-> r]
             ELSE [quot |-> <<1>>, rem |-> BinDiff(r, d)]
    ELSE LET m == Len(n) \div 2
             first == BinDivideFrom(rem, SubSeq(n, 1, m), d)
             second == BinDivideFrom(first.rem, SubSeq(n, m + 1, Len(n)), d)
         IN  [quot |-> first.quot \o second.quot, rem |-> second.rem]

\* quotient and remainder of n by d
BinDivide(n, d) == BinDivideFrom(<<>>, n, d)

\* b * 100
BinTimes100(b) == BinSum(BinSum(BinShift(b, 6), BinShift(b, 5)), BinShift(b, 2))

\* the float sig * 2^exp with the trailing zeros of sig moved to the exponent
FloatNormal(sig, exp) ==
    IF \A i \in 1..Len(sig) : sig[i] = 0 THEN [sig |-> <<>>, exp |-> 0]
    ELSE LET k == CHOOSE i \in 1..Len(sig) :
                      sig[i] = 1 /\ \A j \in (i + 1)..Len(sig) : sig[j] = 0
         IN  [sig |-> BinTrim(SubSeq(sig, 1, k)), exp |-> exp + Len(sig) - k]

\* the float nearest to sig * 2^exp, or, when more is set, to a value between
\* it and (sig + 1) * 2^exp; a value half way goes to the even significand
FloatRound(sig, more, exp) ==
    IF Len(sig) <= SignificandBits THEN FloatNormal(sig, exp)
    ELSE LET kept == SubSeq(sig, 1, SignificandBits)
             half == sig[SignificandBits + 1] = 1
             rest == more \/ \E i \in (SignificandBits + 2)..Len(sig) : sig[i] = 1
             up == half /\ (rest \/ kept[SignificandBits] = 1)
         IN  FloatNormal(IF up THEN BinSum(kept, <<1>>) ELSE kept,
                         exp + Len(sig) - SignificandBits)

FloatOfInt(n) == FloatNormal(BinDigits(n), 0)

\* x / y for x >= 0 and y > 0: the quotient is taken to two digits more than
\* the significand holds
FloatTrueDiv(x, y) ==
    IF x.sig = <<>> THEN x
    ELSE LET s == SignificandBits + 2 + Len(y.sig) - Len(x.sig)
             d == BinDivide(BinShift(x.sig, s), y.sig)
         IN  FloatRound(BinTrim(d.quot), d.rem # <<>>, x.exp - y.exp - s)

\* x - y for x >= y >= 0
FloatSub(x, y) ==
    IF y.sig = <<>> THEN x
    ELSE LET e == Min(x.exp, y.exp)
         IN  FloatRound(BinDiff(BinShift(x.sig, x.exp - e), BinShift(y.sig, y.exp - e)),
                        FALSE, e)

\* x * 100
FloatTimes100(x) == FloatRound(BinTimes100(x.sig), FALSE, x.exp)

\* the float a price of k thousandths is
FloatOfMills(k) == FloatTrueDiv(FloatOfInt(k), FloatOfInt(MILLS))

\* round(x, 2) for x >= 0, in hundredths: the decimal nearest to the value the
\* float holds, a value half way going to the even hundredth
Round2(x) ==
    LET h == BinTimes100(x.sig)
        n == Len(h)
        f == 0 - x.exp
    IN  IF f <= 0 THEN BinValue(BinShift(h, x.exp))
        ELSE LET whole == IF n > f THEN SubSeq(h, 1, n - f) ELSE <<>>
                 half == n >= f /\ h[n - f + 1] = 1
                 rest == \E i \in (n - f + 2)..n : i >= 1 /\ h[i] = 1
                 odd == whole # <<>> /\ whole[Len(whole)] = 1
                 up == half /\ (rest \/ odd)
             IN  BinValue(whole) + (IF up THEN 1 ELSE 0)

\* lines 1669 and 1681: round(high - low, 2)
breach_amount(high, low) == Round2(FloatSub(FloatOfMills(high), FloatOfMills(low)))

\* lines 1670 and 1682: round(((high - low) / limit) * 100, 2)
breach_percentage(high, low, limit) ==
    Round2(FloatTimes100(FloatTrueDiv(FloatSub(FloatOfMills(high), FloatOfMills(low)),
                                      FloatOfMills(limit))))

NoAlert == [kind |-> "none"]
ZeroDivisionError == [kind |-> "raise", error |-> "ZeroDivisionError"]

\* lines 1669-1677 and 1682-1690: the alert dict, or the division by a
\* limit of 0 raising
Breach(type, current_price, limit, high, low) ==
    IF limit = 0 THEN ZeroDivisionError
    ELSE [kind |-> "alert",
          type |-> type,
          currentPrice |-> current_price,
          priceLimit |-> limit,
          breachAmount |-> breach_amount(high, low),
          breachPercentage |-> breach_percentage(high, low, limit)]

\* lines 1649-1691
check_price_alert(r) ==
    IF ~(Has(r, "alertsEnabled") /\ r["alertsEnabled"]) THEN NoAlert
    ELSE IF ~Has(r, "currentPrice") THEN NoAlert
    ELSE LET current_price == r["currentPrice"]
         IN  IF Has(r, "minPrice") /\ current_price < r["minPrice"]
             THEN Breach("price_min_breach", current_price, r["minPrice"],
                         r["minPrice"], current_price)
             ELSE IF Has(r, "maxPrice") /\ current_price > r["maxPrice"]
             THEN Breach("price_max_breach", current_price, r["maxPrice"],
                         current_price, r["maxPrice"])
             ELSE NoAlert

\* a key that is absent, or present with one of the values
Optional(key, values) ==
    {EmptyDict} \cup {[k \in {key} |-> v] : v \in values}

\* 0.005 and 0.015 lie half way between two hundredths as decimals and not
\* as floats; 20.0 - 19.999 is a float above 0.001
CurrentPrices == {0, 2 * MILLS, 19999, 90 * MILLS, 99996, 100 * MILLS, 110 * MILLS}
MinPrices == {0, 5, 15, 3 * MILLS, 20 * MILLS, 100 * MILLS}
MaxPrices == {0, 100 * MILLS}

AlertRecords ==
    {Update(Update(a, c), Update(lo, hi)) :
        a \in Optional("alertsEnabled", BOOLEAN),
        c \in Optional("currentPrice", CurrentPrices),
        lo \in Optional("minPrice", MinPrices),
        hi \in Optional("maxPrice", MaxPrices)}

InitAlert ==
    /\ env_retries = DefaultEnv
    /\ primary = PRIMARY_FIRECRAWL
    /\ ml_force = FALSE
    /\ TaskIdle
    /\ BatchIdle
    /\ BatcherIdle
    /\ JobIdle
    /\ \E r \in AlertRecords : fn_args = [result |-> r]
    /\ fn_ret = <<>>

CheckPriceAlert ==
    /\ fn_ret = <<>>
    /\ fn_ret' = <<check_price_alert(fn_args.result)>>
    /\ UNCHANGED fn_args
    /\ UNCHANGED outside_fn

NextAlert == CheckPriceAlert

SpecAlert == InitAlert /\ [][NextAlert]_vars

\* check_price_alert has returned for the record
AlertChecked == fn_ret # <<>> /\ "result" \in DOMAIN fn_args

AlertsOn(r) == Has(r, "alertsEnabled") /\ r["alertsEnabled"]
MinBreached(r) ==
    Has(r, "currentPrice") /\ Has(r, "minPrice") /\ r["currentPrice"] < r["minPrice"]
MaxBreached(r) ==
    Has(r, "currentPrice") /\ Has(r, "maxPrice") /\ r["currentPrice"] > r["maxPrice"]
IsAlert(ret, type) == ret.kind = "alert" /\ ret.type = type

(***************************************************************************)
(* C32: for a record with alerts enabled and a current price, the function *)
(* returns a min-breach alert exactly when currentPrice < minPrice, with   *)
(* breachAmount = minPrice - currentPrice and breachPercentage =           *)
(* breachAmount / minPrice * 100, both to two decimals; it returns a       *)
(* max-breach alert when there is no min breach and currentPrice >         *)
(* maxPrice; it returns no alert when alerts are disabled, the price is    *)
(* absent, or the price is within the bounds.                              *)
(***************************************************************************)
C32_AlertRule ==
    AlertChecked =>
        LET r == fn_args.result
            ret == fn_ret[1]
        IN  /\ (AlertsOn(r) /\ Has(r, "currentPrice")) =>
                /\ IsAlert(ret, "price_min_breach") <=> MinBreached(r)
                /\ IsAlert(ret, "price_min_breach") =>
                     /\ 10 * ret.breachAmount - (r["minPrice"] - r["currentPrice"]) \in (0 - 5)..5
                     /\ ret.breachPercentage * r["minPrice"] - 10000 * (r["minPrice"] - r["currentPrice"])
                            \in (0 - r["minPrice"])..r["minPrice"]
                /\ (~MinBreached(r) /\ MaxBreached(r)) => IsAlert(ret, "price_max_breach")
            /\ (~AlertsOn(r) \/ ~Has(r, "currentPrice") \/ (~MinBreached(r) /\ ~MaxBreached(r)))
                  => ret = NoAlert

\* the spec's example: minPrice 100, currentPrice 90 gives 10 and 10.0
C32_Example ==
    /\ AlertChecked
    /\ fn_args.result = [alertsEnabled |-> TRUE, currentPrice |-> 90 * MILLS,
                         minPrice |-> 100 * MILLS]
    /\ fn_ret[1].breachAmount = 10 * 100
    /\ fn_ret[1].breachPercentage = 10 * 100

(***************************************************************************)
(* submit_scrape and process_batch_with_job: one job from the request to   *)
(* the end of its run                                                      *)
(***************************************************************************)
\* a string that is given and not empty
IsSet(v) == v # None /\ v # ""

HookUrl == "https://hooks.example/job"

\* lines 2621-2629: the JobRecord of a job not started
JobRecord(total_urls, webhook_url) ==
    [status |-> "pending", totalUrls |-> total_urls, completedUrls |-> 0, failedUrls |-> 0,
     webhookUrl |-> webhook_url, webhookSent |-> 0, webhookSentAt |-> None,
     errorMessage |-> None]

\* mutant: start_job leaves the status as it is
start_job_StatusKept(j) == j

\* lines 2479-2486
start_job(j) == [j EXCEPT !.status = "processing"]

\* lines 2488-2526
complete_job(j, completed_urls, failed_urls) ==
    LET status == FinalStatus(failed_urls, j.totalUrls)
    IN [j EXCEPT !.completedUrls = completed_urls,
                 !.failedUrls = failed_urls,
                 !.status = status,
                 !.errorMessage = IF status = "failed" THEN "All URLs failed" ELSE @]

\* an exception message: its text stands for itself, its length is counted
Message(text, len) == [text |-> text, len |-> len]

\* line 2532: error_message[:500]
ERROR_MESSAGE_MAX == 500
Prefix(message, n) == [message EXCEPT !.len = Min(@, n)]

\* mutant: fail_job leaves the status as it is
fail_job_StatusKept(j, error_message) ==
    [j EXCEPT !.errorMessage = Prefix(error_message, ERROR_MESSAGE_MAX)]

\* lines 2528-2545
fail_job(j, error_message) ==
    [j EXCEPT !.status = "failed", !.errorMessage = Prefix(error_message, ERROR_MESSAGE_MAX)]

\* lines 2573-2577: what send_webhook writes on the job once the POST is answered
webhook_answered(j, resp) ==
    [j EXCEPT !.webhookSent = IF resp.status < 400 THEN 1 ELSE 0, !.webhookSentAt = "now"]

\* insert_job: the record goes to the sink, which stores it or not
Insert(j) == Append(snapshots, [job |-> j, stored |-> j_in.sink_ok])

\* str(e) of what process_batch.local raises: short, or one character over
\* what fail_job keeps
BatchMessages == {Message("boom", 4), Message("long", ERROR_MESSAGE_MAX + 1)}
NoMessage == Message("", 0)
\* str(e) of the ZeroDivisionError check_price_alert raises on a limit of 0:
\* the text of the division of two ints, and of a division with a float
IntDivisionMessage == Message("division by zero", 16)
FloatDivisionMessage == Message("float division by zero", 22)
AlertMessages == {IntDivisionMessage, FloatDivisionMessage}

\* what process_batch.local does: it raises, or returns n_results records of
\* which `failed` have a status other than completed. It returns one record
\* for every item its normalisation keeps (lines 2127-2153), so n_results is
\* below len(urls_data) by the number of items dropped.
BatchOutcomes(total_urls) ==
    {[raises |-> TRUE, n_results |-> 0, failed |-> 0, message |-> m] : m \in BatchMessages}
    \cup {[raises |-> FALSE, n_results |-> n, failed |-> f, message |-> NoMessage] :
            n \in 0..total_urls, f \in 0..total_urls}

WebhookAnswers == {Http(200), Http(404), TimeoutAnswer, TransportError}

\* str(e) of what job_manager.close() raises when closing the client fails
CloseMessage == Message("close failed", 12)

\* the largest len(urls_data) of a job
MaxJobUrls == 2

\* ScrapeRequest.urls has min_length=1 (line 2785): a job has one URL or more
InitJob ==
    /\ env_retries = DefaultEnv
    /\ primary = PRIMARY_FIRECRAWL
    /\ ml_force = FALSE
    /\ TaskIdle
    /\ BatchIdle
    /\ BatcherIdle
    /\ FnIdle
    /\ \E t \in 1..MaxJobUrls, w \in {None, "", HookUrl}, ar \in BOOLEAN,
          wa \in WebhookAnswers, ok \in BOOLEAN, cr \in BOOLEAN :
          \E b \in BatchOutcomes(t), am \in AlertMessages \cup {NoMessage},
             scr \in BOOLEAN :
              /\ b.failed <= b.n_results
              /\ ar => b.n_results > 0
              /\ ar <=> am \in AlertMessages
              /\ j_in = [total_urls |-> t, webhook_url |-> w, batch |-> b,
                         alert_raises |-> ar, alert_message |-> am,
                         webhook_answer |-> wa, sink_ok |-> ok,
                         submit_close_raises |-> scr, close_raises |-> cr]
    /\ j_pc = "submit"
    /\ job = EmptyDict
    /\ snapshots = <<>>
    /\ posts = 0

\* submit_scrape, lines 2869-2882: create_job writes the pending record and
\* the job manager of submit_scrape is closed; close() is not guarded here, so
\* when it raises submit_scrape raises and nothing is spawned, the job staying
\* pending; otherwise the run is spawned, with a job manager of its own, and
\* builds its own JobRecord of the same content
CreateJob ==
    /\ j_pc = "submit"
    /\ job' = JobRecord(j_in.total_urls, j_in.webhook_url)
    /\ snapshots' = Insert(job')
    /\ j_pc' = IF j_in.submit_close_raises THEN "submit_raised" ELSE "spawned"
    /\ UNCHANGED <<j_in, posts>>
    /\ UNCHANGED outside_job

\* line 2633
StartJob ==
    /\ j_pc = "spawned"
    /\ job' = start_job(job)
    /\ snapshots' = Insert(job')
    /\ j_pc' = "batch"
    /\ UNCHANGED <<j_in, posts>>
    /\ UNCHANGED outside_job

\* line 2636: process_batch.local returns or raises
RunBatch ==
    /\ j_pc = "batch"
    /\ j_pc' = IF j_in.batch.raises THEN "except" ELSE "complete"
    /\ UNCHANGED <<j_in, job, snapshots, posts>>
    /\ UNCHANGED outside_job

\* lines 2638-2659
CompleteJob ==
    /\ j_pc = "complete"
    /\ job' = complete_job(job, j_in.batch.n_results - j_in.batch.failed, j_in.batch.failed)
    /\ snapshots' = Insert(job')
    /\ j_pc' = IF IsSet(j_in.webhook_url) THEN "summary" ELSE "close"
    /\ UNCHANGED <<j_in, posts>>
    /\ UNCHANGED outside_job

\* lines 2661-2687: the summary is built, check_price_alert being called on
\* every record
BuildSummary ==
    /\ j_pc = "summary"
    /\ j_pc' = IF j_in.alert_raises THEN "except" ELSE "webhook"
    /\ UNCHANGED <<j_in, job, snapshots, posts>>
    /\ UNCHANGED outside_job

\* line 2688, send_webhook lines 2547-2572: the POST is made and awaited
SendWebhook ==
    /\ j_pc = "webhook"
    /\ IF ~IsSet(job.webhookUrl)
       THEN /\ j_pc' = "close"
            /\ UNCHANGED posts
       ELSE /\ j_pc' = "webhook_post"
            /\ posts' = posts + 1
    /\ UNCHANGED <<j_in, job, snapshots>>
    /\ UNCHANGED outside_job

\* send_webhook lines 2573-2590: the POST is answered and the answer is written
\* on the job and handed to insert_job, or it raises and only a line is printed
WebhookAnswer ==
    /\ j_pc = "webhook_post"
    /\ j_pc' = "close"
    /\ IF j_in.webhook_answer.kind = "http"
       THEN /\ job' = webhook_answered(job, j_in.webhook_answer)
            /\ snapshots' = Insert(job')
       ELSE UNCHANGED <<job, snapshots>>
    /\ UNCHANGED <<j_in, posts>>
    /\ UNCHANGED outside_job

\* lines 2690-2701: close() is inside the try; when it raises the exception
\* handler runs, otherwise the summary is returned
Close ==
    /\ j_pc = "close"
    /\ j_pc' = IF j_in.close_raises THEN "except" ELSE "returned"
    /\ UNCHANGED <<j_in, job, snapshots, posts>>
    /\ UNCHANGED outside_job

\* str(e) of the exception the handler caught: process_batch.local's, or
\* check_price_alert's, or close()'s
Caught ==
    IF j_in.batch.raises THEN j_in.batch.message
    ELSE IF IsSet(j_in.webhook_url) /\ j_in.alert_raises THEN j_in.alert_message
    ELSE CloseMessage

\* lines 2703-2707: the exception handler
FailJob ==
    /\ j_pc = "except"
    /\ job' = fail_job(job, Caught)
    /\ snapshots' = Insert(job')
    /\ j_pc' = "raised"
    /\ UNCHANGED <<j_in, posts>>
    /\ UNCHANGED outside_job

NextJob ==
    \/ CreateJob
    \/ StartJob
    \/ RunBatch
    \/ CompleteJob
    \/ BuildSummary
    \/ SendWebhook
    \/ WebhookAnswer
    \/ Close
    \/ FailJob

SpecJob == InitJob /\ [][NextJob]_vars

(***************************************************************************)
(* Vocabulary of the job properties                                        *)
(***************************************************************************)
Terminal == {"completed", "partial", "failed"}
Rank(status) == IF status = "pending" THEN 0 ELSE IF status = "processing" THEN 1 ELSE 2
StatusAt(i) == snapshots[i].job.status
RunOver == j_pc \in {"returned", "raised"}
WebhookFailed(resp) == resp.kind # "http" \/ resp.status >= 400
\* this step is send_webhook going on from its POST, answered or raising
WebhookSettled == j_pc = "webhook_post" /\ j_pc' # "webhook_post"

(***************************************************************************)
(* C28: the records handed to insert_job for one job are one pending       *)
(* record, then one processing record, then records with a terminal        *)
(* status; the processing record is there before the batch runs and        *)
(* before any terminal record, and no pending or processing record comes   *)
(* after a terminal one.                                                   *)
(***************************************************************************)
C28_SnapshotOrder ==
    /\ \A i, k \in 1..Len(snapshots) : i < k => Rank(StatusAt(i)) <= Rank(StatusAt(k))
    /\ \A i \in 1..Len(snapshots) :
          /\ StatusAt(i) \in {"pending", "processing"} \cup Terminal
          /\ StatusAt(i) = "pending" <=> i = 1
          /\ StatusAt(i) = "processing" <=> i = 2
    /\ j_pc \in {"batch", "complete", "summary", "webhook", "webhook_post", "close",
                 "except", "returned", "raised"} =>
          (Len(snapshots) >= 2 /\ StatusAt(2) = "processing")
    /\ j_pc \in {"submit", "submit_raised", "spawned", "batch"} =>
          \A i \in 1..Len(snapshots) : StatusAt(i) \notin Terminal
    /\ j_pc = "submit_raised" => (Len(snapshots) = 1 /\ job.status = "pending")

C28_Witness ==
    /\ j_pc = "raised"
    /\ Len(snapshots) = 4
    /\ StatusAt(1) = "pending"
    /\ StatusAt(2) = "processing"
    /\ StatusAt(3) = "partial"
    /\ StatusAt(4) = "failed"

(***************************************************************************)
(* C29: the POST to the webhook URL is made at most once per job, and when *)
(* it fails (status >= 400, timeout or transport exception) the job keeps  *)
(* its terminal status and the failure is recorded on the JobRecord: the   *)
(* time of the attempt is set with webhookSent 0 and the record is handed  *)
(* to insert_job.                                                          *)
(***************************************************************************)
C29_Step ==
    (WebhookSettled /\ WebhookFailed(j_in.webhook_answer)) =>
        /\ job.status \in Terminal
        /\ job'.status = job.status
        /\ job'.webhookSent = 0
        /\ job'.webhookSentAt # None
        /\ Len(snapshots') = Len(snapshots) + 1
        /\ snapshots'[Len(snapshots')].job = job'

C29_WebhookFailureRecorded == [][C29_Step]_vars /\ [](posts <= 1)

(***************************************************************************)
(* C30: once the run of a job is over with a terminal status, a POST has   *)
(* been made to the webhook URL if one was given, whether the job went     *)
(* through complete_job or through the exception handler, and none has     *)
(* been made if none was given.                                            *)
(***************************************************************************)
C30_WebhookOnEveryTerminal ==
    (RunOver /\ job.status \in Terminal) =>
        IF IsSet(j_in.webhook_url) THEN posts = 1 ELSE posts = 0

(***************************************************************************)
(* C31: when process_batch.local raises, the run ends by raising with the  *)
(* job failed, its errorMessage the exception message (the first 500       *)
(* characters of it), the counts complete_job would set untouched, and the *)
(* failed record the last one handed to insert_job, after the processing   *)
(* one and with no completed or partial record for the job.                *)
(***************************************************************************)
C31_ExceptionFailsJob ==
    (j_pc # "none" /\ j_in.batch.raises) =>
        /\ j_pc \notin {"complete", "summary", "webhook", "webhook_post", "close",
                      "returned"}
        /\ j_pc = "raised" =>
              /\ job.status = "failed"
              /\ job.errorMessage = Prefix(j_in.batch.message, ERROR_MESSAGE_MAX)
              /\ j_in.batch.message.len <= ERROR_MESSAGE_MAX =>
                    job.errorMessage = j_in.batch.message
              /\ job.completedUrls = 0 /\ job.failedUrls = 0
              /\ Len(snapshots) = 3
              /\ StatusAt(1) = "pending" /\ StatusAt(2) = "processing"
              /\ snapshots[3].job = job
        /\ j_pc # "raised" => \A i \in 1..Len(snapshots) : StatusAt(i) \notin Terminal

C31_Witness ==
    /\ j_pc = "raised"
    /\ j_in.batch.raises
    /\ j_in.batch.message = Message("boom", 4)
    /\ job.status = "failed"
    /\ job.errorMessage = Message("boom", 4)
    /\ snapshots[3].stored

\* this step is complete_job handing its record to insert_job
CompleteJobWrites ==
    /\ j_pc = "complete"
    /\ j_pc' # "complete"
    /\ Len(snapshots') = Len(snapshots) + 1

(***************************************************************************)
(* C38: the record complete_job writes has completedUrls + failedUrls =    *)
(* totalUrls, for every input list, those of which normalisation drops     *)
(* items (fewer results than URLs) included.                               *)
(***************************************************************************)
C38_CountsAddUp ==
    [][CompleteJobWrites =>
          LET written == snapshots'[Len(snapshots')].job
          IN  /\ written.status \in Terminal
              /\ written.completedUrls + written.failedUrls = written.totalUrls]_vars

(***************************************************************************)
(* C39: once a record with a terminal status has been written for the job, *)
(* every later record of the job has the same status, whether it is        *)
(* written by the webhook bookkeeping or by the exception handler after a  *)
(* step that follows complete_job raised.                                  *)
(***************************************************************************)
C39_TerminalStatusFinal ==
    \A i, k \in 1..Len(snapshots) :
        (i < k /\ StatusAt(i) \in Terminal) => StatusAt(k) = StatusAt(i)

(***************************************************************************)
(* TinybirdBatcher used by two coroutines at once                          *)
(***************************************************************************)
\* batchers with a batch size of two shared by two callers
ConcurrentBatchers ==
    {[batch_size |-> 2, max_retries |-> TINYBIRD_MAX_RETRIES, token |-> t,
      to_add |-> 3, callers |-> {"c1", "c2"}, enters |-> 1] : t \in BOOLEAN}

InitConcurrent ==
    InitBatcherWith(ConcurrentBatchers,
                    {<<>>, <<Http(500), Http(500), Http(500), Http(200)>>})

\* with two callers the flush() of __aexit__ may find the lock taken
NextConcurrent ==
    \/ NextBatcher
    \/ \E c \in DOMAIN cpc : TeardownResume(c)

\* the fairness of FairSpecBatcher: the event loop runs what is ready, the
\* calls of the two users come when they come
FairSpecConcurrent ==
    /\ InitConcurrent
    /\ [][NextConcurrent]_vars
    /\ WF_vars(\E c \in DOMAIN cpc : AddResume(c))
    /\ WF_vars(\E c \in DOMAIN cpc : FlushResume(c))
    /\ WF_vars(\E c \in DOMAIN cpc : TeardownFlush(c))
    /\ WF_vars(\E c \in DOMAIN cpc : TeardownResume(c))
    /\ WF_vars(\E i \in 1..Len(timer_tasks) : TimerUnwind(i))
    /\ WF_vars(TimerWake)
    /\ WF_vars(TimerResume)
    /\ WF_vars(Post)
    /\ WF_vars(BackoffEnd)
    /\ WF_vars(Tick)

\* add calls that hold record r and wait for the lock
Pending(r) == Cardinality({c \in DOMAIN cpc : cpc[c].pc = "add_wait" /\ cpc[c].rec = r})

\* every record passed to add is in one place: with the add that waits for
\* the lock, once in the buffer, or taken from the buffer by one flush
EachRecordOnce ==
    \A r \in DOMAIN flushed :
        Occurrences(buffer, r) + Pending(r) + flushed[r] = (IF r <= n_added THEN 1 ELSE 0)

\* the batch being delivered is held under the lock by who flushed it, and
\* its records are out of the buffer
DeliveryUnderLock ==
    delivery # NoDelivery =>
        /\ lock = delivery.owner
        /\ lock # "free"
        /\ \A i \in 1..Len(delivery.batch) :
              flushed[delivery.batch[i]] = 1 /\ ~InBuffer(delivery.batch[i])

\* an add that arrives while the lock is held waits with its record
AddArrivesLocked == n_added' = n_added + 1 /\ lock # "free"

C40_Step ==
    /\ delivery # NoDelivery => (buffer' = buffer /\ flushed' = flushed)
    /\ buffer' # buffer => lock = "free"
    /\ AddArrivesLocked =>
          /\ buffer' = buffer
          /\ delivery' = delivery
          /\ lock' = lock
          /\ \E c \in DOMAIN cpc :
                /\ cpc[c].pc = "idle"
                /\ cpc'[c] = [pc |-> "add_wait", rec |-> n_added + 1]

\* record r was passed to add and no flush has taken it yet
Unflushed(r) == InBuffer(r) \/ Pending(r) > 0

C40_Safety ==
    /\ [](bt_state # "none" => (EachRecordOnce /\ DeliveryUnderLock))
    /\ [][C40_Step]_vars

(***************************************************************************)
(* C40 as claimed: with two coroutines calling add and flush while the     *)
(* timer runs, every record passed to add is taken from the buffer by      *)
(* exactly one flush, and until then is once in the buffer or with the add *)
(* that waits for the lock; a delivery, its backoff waits included, runs   *)
(* with the lock held and the buffer is not touched meanwhile; an add that *)
(* arrives then waits, and its record is in no batch yet.                  *)
(***************************************************************************)
C40_EveryAddFlushed ==
    /\ C40_Safety
    /\ \A r \in 1..3 : Unflushed(r) ~> flushed[r] = 1

(***************************************************************************)
(* C40 amended: the same for every record that is with the batcher while   *)
(* it is active, the add that waits for the lock included; a record passed *)
(* to add before the batcher is entered or once its teardown has begun is  *)
(* kept once and sent in no two batches, but nothing flushes it unless the *)
(* user enters the batcher or calls add or flush again.                    *)
(***************************************************************************)
C40_EachRecordInOneBatch ==
    /\ C40_Safety
    /\ \A r \in 1..3 : (Unflushed(r) /\ bt_state = "active") ~> flushed[r] = 1

\* the third add arrived while one caller was between two attempts to send
\* the batch of the first two records: it waits for the lock with its record
C40_Witness ==
    /\ bt_state = "active"
    /\ DOMAIN cpc = {"c1", "c2"}
    /\ delivery # NoDelivery
    /\ delivery.phase = "backoff"
    /\ delivery.batch = <<1, 2>>
    /\ lock = "c1"
    /\ cpc["c2"] = [pc |-> "add_wait", rec |-> 3]
    /\ waiters = <<"c2">>
    /\ buffer = <<>>
    /\ flushed = <<1, 1, 0>>

\* a record was passed to add after the teardown: it stays in the buffer of
\* the closed batcher
C40_AddedAfterClose ==
    /\ bt_state = "closed"
    /\ scopes = 0
    /\ buffer = <<3>>
    /\ flushed = <<1, 1, 0>>
    /\ \A c \in DOMAIN cpc : cpc[c].pc = "idle"

====
